---- MODULE Spec2Model ----
(***************************************************************************)
(* A model of the Toy language evaluator (src/execution_evaluation.py):    *)
(* environments, callables, instances and the statement/expression         *)
(* evaluator of class Interpreter, including the thread pool of            *)
(* execute_parallel.                                                       *)
(***************************************************************************)
EXTENDS Integers, Sequences, FiniteSets, TLC

VARIABLES
    envs,         \* heap of Environment objects: id -> [values, enclosing]
    insts,        \* heap of ToyInstance objects: id -> [klass, fields]
    environment,  \* Interpreter.environment (id of the current Environment)
    threads,      \* thread id -> [stack, exc, status]; thread 0 runs interpret
    output,       \* lines written to standard output by print(...)
    prog,         \* the statement list handed to Interpreter.interpret
    result,       \* what interpret returned: "running", TRUE or FALSE
    op,           \* last Environment operation applied (EnvSpec only)
    cli,          \* the REPL: its phase and the lines it has read (CliSpec only)
    front         \* a source, what scan_tokens made of it and what parse made
                  \* of the tokens (FrontSpec only)

vars == <<envs, insts, environment, threads, output, prog, result, op, cli, front>>

----------------------------------------------------------------------------
(* Bounds *)

MaxEnvs == 3        \* environments of a chain explored by EnvSpec
MaxBranches == 2    \* statements of a parallel block
MaxArg == 2         \* numeric inputs of the programs range over 1..MaxArg

----------------------------------------------------------------------------
(* Runtime values (Python objects held by the evaluator) *)

Null == [k |-> "null"]
IntV(n) == [k |-> "int", n |-> n]
StrV(s) == [k |-> "str", s |-> s]
BoolV(b) == [k |-> "bool", b |-> b]

Abs(n) == IF n < 0 THEN -n ELSE n

RECURSIVE GCD(_, _)
GCD(a, b) == IF b = 0 THEN a ELSE GCD(b, a % b)

\* a Python float, held exactly as the fraction num/den in lowest terms with
\* den > 0 (the programs below stay within values a double holds exactly or
\* prints as it would the exact fraction)
FloatV(num, den) ==
    LET sn == IF den < 0 THEN -num ELSE num
        sd == Abs(den)
        g == GCD(Abs(sn), sd)
    IN [k |-> "float", num |-> sn \div g, den |-> sd \div g]

\* ToyFunction(declaration, closure)
ToyFunction(declaration, closure) ==
    [k |-> "fn", declaration |-> declaration, closure |-> closure]

\* ToyLambda(declaration, closure)
ToyLambda(declaration, closure) ==
    [k |-> "lambda", declaration |-> declaration, closure |-> closure]

\* ToyClass(name, methods); methods maps a method name to a ToyFunction
ToyClass(name, methods) ==
    [k |-> "class", name |-> name, methods |-> methods]

\* a reference to the ToyInstance object insts[id]; klass is the name of its
\* class (insts[id].klass.name), kept for __str__
InstRef(id, klass) == [k |-> "inst", id |-> id, klass |-> klass]

\* dict helpers
EmptyMap == [x \in {} |-> Null]
MapPut(f, n, v) == [x \in (DOMAIN f) \cup {n} |-> IF x = n THEN v ELSE f[x]]

\* no REPL: the interpreter was handed a statement list
NoCli == [phase |-> "none"]
NoOp == [kind |-> "none"]
\* no source is under analysis on its own
NoFront == [phase |-> "none"]

Ok(v) == [ok |-> TRUE, v |-> v]
\* a raised exception of this module's class RuntimeError
Fail(msg) == [ok |-> FALSE, msg |-> msg, type |-> "RuntimeError"]
\* a raised exception of a builtin class of the host
HostFail(type, msg) == [ok |-> FALSE, msg |-> msg, type |-> type]

----------------------------------------------------------------------------
(* class Environment *)

\* Environment(enclosing): a new object with an empty dict
NewEnvironment(enclosing) == [values |-> EmptyMap, enclosing |-> enclosing]

\* a define that writes to the enclosing environment when there is one
Environment_define_enclosing(E, e, name, value) ==
    LET t == IF E[e].enclosing # 0 THEN E[e].enclosing ELSE e IN
    [E EXCEPT ![t].values = MapPut(E[t].values, name, value)]

\* Environment.define: a write to the dict of e itself
Environment_define(E, e, name, value) ==
    [E EXCEPT ![e].values = MapPut(E[e].values, name, value)]

\* Environment.get: the nearest binding on the chain, else RuntimeError
RECURSIVE Environment_get(_, _, _)
Environment_get(E, e, name) ==
    IF name \in DOMAIN E[e].values
    THEN Ok(E[e].values[name])
    ELSE IF E[e].enclosing # 0
         THEN Environment_get(E, E[e].enclosing, name)
         ELSE Fail("Undefined variable '" \o name \o "'.")

\* an assign that creates the binding in the root instead of failing
RECURSIVE Environment_assign_implicit(_, _, _, _)
Environment_assign_implicit(E, e, name, value) ==
    IF name \in DOMAIN E[e].values
    THEN [ok |-> TRUE, envs |-> [E EXCEPT ![e].values[name] = value]]
    ELSE IF E[e].enclosing # 0
         THEN Environment_assign_implicit(E, E[e].enclosing, name, value)
         ELSE [ok |-> TRUE,
               envs |-> [E EXCEPT ![e].values = MapPut(E[e].values, name, value)]]

\* Environment.assign: overwrite the nearest binding on the chain, else RuntimeError
RECURSIVE Environment_assign(_, _, _, _)
Environment_assign(E, e, name, value) ==
    IF name \in DOMAIN E[e].values
    THEN [ok |-> TRUE, envs |-> [E EXCEPT ![e].values[name] = value]]
    ELSE IF E[e].enclosing # 0
         THEN Environment_assign(E, E[e].enclosing, name, value)
         ELSE [ok |-> FALSE, envs |-> E,
               msg |-> "Undefined variable '" \o name \o "'."]

----------------------------------------------------------------------------
(* AST nodes (src/syntax_analysis.py); cls is the node's Python class *)

Literal(value) == [cls |-> "Literal", value |-> value]
Variable(name) == [cls |-> "Variable", name |-> name]
Binary(left, operator, right) ==
    [cls |-> "Binary", left |-> left, operator |-> operator, right |-> right]
Unary(operator, right) == [cls |-> "Unary", operator |-> operator, right |-> right]
Assign(name, value) == [cls |-> "Assign", name |-> name, value |-> value]
Call(callee, arguments) == [cls |-> "Call", callee |-> callee, arguments |-> arguments]
Get(object, name) == [cls |-> "Get", object |-> object, name |-> name]
Set(object, name, value) ==
    [cls |-> "Set", object |-> object, name |-> name, value |-> value]
Lambda(params, body) == [cls |-> "Lambda", params |-> params, body |-> body]

Expression(expression) == [cls |-> "Expression", expression |-> expression]
PrintStmt(expression) == [cls |-> "Print", expression |-> expression]
Let(name, initializer) == [cls |-> "Let", name |-> name, initializer |-> initializer]
Block(statements) == [cls |-> "Block", statements |-> statements]
Function(name, params, body) ==
    [cls |-> "Function", name |-> name, params |-> params, body |-> body]
ReturnStmt(value) == [cls |-> "Return", value |-> value]
Class(name, methods) == [cls |-> "Class", name |-> name, methods |-> methods]
Parallel(body) == [cls |-> "Parallel", body |-> body]
Repeat(count, body) == [cls |-> "Repeat", count |-> count, body |-> body]
Delete(expression) == [cls |-> "Delete", expression |-> expression]

\* an absent optional child (Python None in an AST field)
NoExpr == [cls |-> "None"]

----------------------------------------------------------------------------
(* Text of values *)

Digit(d) == CASE d = 0 -> "0" [] d = 1 -> "1" [] d = 2 -> "2" [] d = 3 -> "3"
              [] d = 4 -> "4" [] d = 5 -> "5" [] d = 6 -> "6" [] d = 7 -> "7"
              [] d = 8 -> "8" [] d = 9 -> "9"

RECURSIVE NatToStr(_)
NatToStr(n) == IF n < 10 THEN Digit(n) ELSE NatToStr(n \div 10) \o Digit(n % 10)

IntToStr(n) == IF n < 0 THEN "-" \o NatToStr(-n) ELSE NatToStr(n)

\* the digits after the decimal point of r/den, 0 <= r < den, for a fraction
\* whose decimal expansion ends
RECURSIVE FracDigits(_, _)
FracDigits(r, den) ==
    IF r = 0 THEN ""
    ELSE Digit((r * 10) \div den) \o FracDigits((r * 10) % den, den)

\* repr() of a float
FloatToStr(v) ==
    LET a == Abs(v.num)
        whole == NatToStr(a \div v.den)
        frac == IF a % v.den = 0 THEN "0" ELSE FracDigits(a % v.den, v.den)
    IN (IF v.num < 0 THEN "-" ELSE "") \o whole \o "." \o frac

\* __str__ of the runtime classes and Python's str() of the builtin values
PyStr(v) ==
    CASE v.k = "null" -> "None"
      [] v.k = "int" -> IntToStr(v.n)
      [] v.k = "float" -> FloatToStr(v)
      [] v.k = "str" -> v.s
      [] v.k = "bool" -> IF v.b THEN "True" ELSE "False"
      [] v.k = "fn" -> "<function " \o v.declaration.name \o ">"
      [] v.k = "lambda" -> "<lambda function>"
      [] v.k = "class" -> "<class " \o v.name \o ">"
      [] v.k = "inst" -> "<instance of " \o v.klass \o ">"
      [] v.k = "method" ->
            "<method " \o v.method.declaration.name \o " of <instance of "
               \o v.klass \o ">>"

\* Interpreter.stringify
stringify(v) ==
    CASE v.k = "null" -> "null"
      [] v.k = "bool" -> IF v.b THEN "true" ELSE "false"
      [] v.k = "float" /\ v.den = 1 -> IntToStr(v.num)
      [] OTHER -> PyStr(v)

\* type(v).__name__
TypeName(v) ==
    CASE v.k = "null" -> "NoneType"
      [] v.k = "int" -> "int"
      [] v.k = "float" -> "float"
      [] v.k = "str" -> "str"
      [] v.k = "bool" -> "bool"
      [] v.k = "fn" -> "ToyFunction"
      [] v.k = "lambda" -> "ToyLambda"
      [] v.k = "class" -> "ToyClass"
      [] v.k = "inst" -> "ToyInstance"
      [] v.k = "method" -> "ToyMethod"

\* isinstance(v, (int, float)); bool is a subclass of int
IsNumber(v) == v.k \in {"int", "float", "bool"}
\* isinstance(v, int)
IsInt(v) == v.k \in {"int", "bool"}
\* the value of an int or bool
NumberOf(v) == IF v.k = "bool" THEN (IF v.b THEN 1 ELSE 0) ELSE v.n
\* the value of an int, bool or float as the fraction num/den
RatOf(v) == IF v.k = "float" THEN [num |-> v.num, den |-> v.den]
            ELSE [num |-> NumberOf(v), den |-> 1]

\* the largest numeral a string of the programs holds
MaxNumeral == 20

\* float(s) of a string: the strings of the programs are words, for which
\* float() raises ValueError, or unsigned decimal numerals
FloatOfStr(s) ==
    LET ns == {n \in 0..MaxNumeral : NatToStr(n) = s}
    IN IF ns = {} THEN Fail("ValueError") ELSE Ok(FloatV(CHOOSE n \in ns : TRUE, 1))

\* int(v) of a number: truncation toward zero
PyInt(v) ==
    LET r == RatOf(v)
    IN IF r.num >= 0 THEN r.num \div r.den ELSE -((-r.num) \div r.den)

\* isinstance(v, ToyCallable)
IsCallable(v) == v.k \in {"fn", "lambda", "class", "method"}

----------------------------------------------------------------------------
(* Callables and instances *)

\* a bind that defines "this" in the closure itself
ToyFunction_bind_shared(E, fn, inst) ==
    [envs |-> Environment_define(E, fn.closure, "this", inst),
     v |-> ToyFunction(fn.declaration, fn.closure)]

\* ToyFunction.bind: a new Environment under the closure that defines "this"
ToyFunction_bind(E, fn, inst) ==
    LET id == Len(E) + 1
        E1 == Append(E, NewEnvironment(fn.closure))
    IN [envs |-> Environment_define(E1, id, "this", inst),
        v |-> ToyFunction(fn.declaration, id)]

\* ToyMethod(instance, method): binds the method when it is created
ToyMethod(E, inst, method) ==
    LET b == ToyFunction_bind(E, method, inst)
    IN [envs |-> b.envs,
        v |-> [k |-> "method", instance |-> inst.id, klass |-> inst.klass,
               method |-> method, bound_method |-> b.v]]

\* ToyClass.find_method
ToyClass_find_method(klass, name) ==
    IF name \in DOMAIN klass.methods THEN klass.methods[name] ELSE Null

\* ToyClass.arity
ToyClass_arity(klass) ==
    LET initializer == ToyClass_find_method(klass, "init")
    IN IF initializer # Null THEN Len(initializer.declaration.params) ELSE 0

\* arity() of any callable
Arity(callee) ==
    CASE callee.k = "fn" -> Len(callee.declaration.params)
      [] callee.k = "lambda" -> Len(callee.declaration.params)
      [] callee.k = "class" -> ToyClass_arity(callee)
      [] callee.k = "method" -> Len(callee.method.declaration.params)

\* the property names ToyInstance.get answers with None instead of failing
SilentProperties == {"name", "age"}

EOk(v, E, I) == [ok |-> TRUE, v |-> v, envs |-> E, insts |-> I]
EFail(msg, E, I) ==
    [ok |-> FALSE, msg |-> msg, type |-> "RuntimeError", envs |-> E, insts |-> I]
\* the exception of r leaves an evaluation that has left the heaps E and I
EFailOf(r, E, I) ==
    [ok |-> FALSE, msg |-> r.msg, type |-> r.type, envs |-> E, insts |-> I]

\* ToyInstance.get
ToyInstance_get(E, I, inst, name) ==
    LET self == I[inst.id] IN
    IF name \in DOMAIN self.fields
    THEN EOk(self.fields[name], E, I)
    ELSE IF name \in DOMAIN self.klass.methods
    THEN LET m == ToyMethod(E, inst, self.klass.methods[name])
         IN EOk(m.v, m.envs, I)
    ELSE IF name \in SilentProperties
    THEN EOk(Null, E, [I EXCEPT ![inst.id].fields = MapPut(self.fields, name, Null)])
    ELSE EFail("Undefined property '" \o name \o "'.", E, I)

\* ToyInstance.set
ToyInstance_set(I, inst, name, value) ==
    [I EXCEPT ![inst.id].fields = MapPut(I[inst.id].fields, name, value)]

----------------------------------------------------------------------------
(* Interpreter.evaluate and the evaluate_* methods *)

\* the isinstance chain of Interpreter.evaluate: the method that handles a
\* node, "none" when no branch matches (evaluate then returns None)
EvaluateHandler(expr) ==
    CASE expr.cls = "Binary" -> "evaluate_binary"
      [] expr.cls = "Unary" -> "evaluate_unary"
      [] expr.cls = "Literal" -> "literal"
      [] expr.cls = "Variable" -> "look_up_variable"
      [] expr.cls = "Assign" -> "evaluate_assign"
      [] expr.cls = "Call" -> "evaluate_call"
      [] expr.cls = "Get" -> "evaluate_get"
      [] expr.cls = "Lambda" -> "lambda"
      [] OTHER -> "none"

\* float(v) if not isinstance(v, (int, float)) else v: the number, or the
\* ValueError or TypeError of float()
Coerce(v) ==
    IF IsNumber(v) THEN Ok(v)
    ELSE IF v.k = "str" THEN FloatOfStr(v.s)
    ELSE Fail("TypeError")

Coerces(v) == Coerce(v).ok

\* Python's a % b on ints
IntMod(a, b) == IF b > 0 THEN a % b ELSE -((-a) % (-b))

\* Python's arithmetic on two numbers: int with int stays int except for /,
\* anything with a float is a float
Arith(operator, a, b) ==
    LET x == RatOf(a)
        y == RatOf(b)
        ints == IsInt(a) /\ IsInt(b)
    IN CASE operator = "+" ->
              IF ints THEN IntV(x.num + y.num)
              ELSE FloatV(x.num * y.den + y.num * x.den, x.den * y.den)
         [] operator = "-" ->
              IF ints THEN IntV(x.num - y.num)
              ELSE FloatV(x.num * y.den - y.num * x.den, x.den * y.den)
         [] operator = "*" ->
              IF ints THEN IntV(x.num * y.num)
              ELSE FloatV(x.num * y.num, x.den * y.den)
         [] operator = "/" -> FloatV(x.num * y.den, x.den * y.num)
         [] operator = "%" ->
              IF ints THEN IntV(IntMod(x.num, y.num))
              ELSE LET q == FloatV(x.num * y.den, x.den * y.num)
                       f == q.num \div q.den
                   IN FloatV(x.num * y.den - f * y.num * x.den, x.den * y.den)

\* Python's comparison of two numbers
Compare(operator, a, b) ==
    LET l == RatOf(a).num * RatOf(b).den
        r == RatOf(b).num * RatOf(a).den
    IN CASE operator = ">" -> l > r
         [] operator = ">=" -> l >= r
         [] operator = "<" -> l < r
         [] operator = "<=" -> l <= r
         [] operator = "==" -> l = r

\* Interpreter.is_truthy
is_truthy(v) ==
    CASE v.k = "null" -> FALSE
      [] v.k = "bool" -> v.b
      [] v.k \in {"int", "float"} -> RatOf(v).num # 0
      [] v.k = "str" -> v.s # ""
      [] OTHER -> TRUE

\* Interpreter.is_equal
is_equal(a, b) ==
    IF a = Null /\ b = Null THEN TRUE
    ELSE IF a = Null THEN FALSE
    ELSE IF IsNumber(a) /\ IsNumber(b) THEN Compare("==", a, b)
    ELSE a = b

\* what the operators that coerce their operands say when float() fails
CoerceError(operator, left, right) ==
    LET types == TypeName(left) \o " and " \o TypeName(right) IN
    CASE operator = "-" -> "Cannot subtract " \o types \o "."
      [] operator = "*" -> "Cannot multiply " \o types \o "."
      [] operator = "/" -> "Cannot divide " \o types \o "."
      [] operator = "%" -> "Cannot compute modulo of " \o types \o "."
      [] OTHER -> "Cannot compare " \o types \o " with " \o operator \o "."

\* a zero check that lets the quotient be computed
ZeroDivisor_unchecked(num_right) == FALSE

\* num_right == 0
ZeroDivisor(num_right) == RatOf(num_right).num = 0

\* the operator part of evaluate_binary, on two evaluated operands
BinaryOp(operator, left, right) ==
    CASE operator = "+" ->
            IF left.k = "str" \/ right.k = "str"
            THEN Ok(StrV(PyStr(left) \o PyStr(right)))
            ELSE IF IsNumber(left) /\ IsNumber(right)
            THEN Ok(Arith("+", left, right))
            ELSE Ok(StrV(PyStr(left) \o PyStr(right)))
      [] operator \in {"-", "*"} ->
            IF Coerces(left) /\ Coerces(right)
            THEN Ok(Arith(operator, Coerce(left).v, Coerce(right).v))
            ELSE Fail(CoerceError(operator, left, right))
      [] operator \in {"/", "%"} ->
            IF Coerces(left) /\ Coerces(right)
            THEN IF ZeroDivisor(Coerce(right).v)
                 \* the RuntimeError of this module is no ValueError or
                 \* TypeError: it leaves the try as it is
                 THEN Fail(IF operator = "/" THEN "Division by zero."
                           ELSE "Modulo by zero.")
                 ELSE IF RatOf(Coerce(right).v).num = 0
                 \* Python's own / and % on a zero divisor
                 THEN HostFail("ZeroDivisionError", "division by zero")
                 ELSE Ok(Arith(operator, Coerce(left).v, Coerce(right).v))
            ELSE Fail(CoerceError(operator, left, right))
      [] operator \in {">", ">=", "<", "<="} ->
            IF Coerces(left) /\ Coerces(right)
            THEN Ok(BoolV(Compare(operator, Coerce(left).v, Coerce(right).v)))
            ELSE Fail(CoerceError(operator, left, right))
      [] operator = "==" -> Ok(BoolV(is_equal(left, right)))
      [] operator = "!=" -> Ok(BoolV(~is_equal(left, right)))

\* evaluate_unary, on the evaluated operand
UnaryOp(operator, right) ==
    CASE operator = "-" ->
            IF IsNumber(right)
            THEN Ok(Arith("-", IntV(0), right))
            ELSE Fail("Operand must be a number for '-'.")
      [] operator = "!" -> Ok(BoolV(~is_truthy(right)))

\* evaluate(expr) with self.environment = cur, on the heaps E and I; the
\* result carries the heaps as the evaluation left them.  Call nodes are
\* evaluated by the action EvaluateCall below.
RECURSIVE evaluate(_, _, _, _)

\* the result of an operator on the heaps the operands left
Lifted(b, E, I) == IF b.ok THEN EOk(b.v, E, I) ELSE EFailOf(b, E, I)

\* look_up_variable
look_up_variable(r, E, I) ==
    IF r.ok THEN EOk(r.v, E, I)
    ELSE EFail("Variable lookup error: " \o r.msg, E, I)

\* evaluate_binary once both operands are evaluated (left, then right)
evaluate_binary_operator(operator, left, right) ==
    IF ~right.ok THEN right
    ELSE Lifted(BinaryOp(operator, left.v, right.v), right.envs, right.insts)

\* evaluate_binary once the left operand is evaluated
evaluate_binary_right(expr, cur, left) ==
    IF ~left.ok THEN left
    ELSE evaluate_binary_operator(expr.operator, left,
                                  evaluate(expr.right, cur, left.envs, left.insts))

evaluate_binary(expr, cur, E, I) ==
    evaluate_binary_right(expr, cur, evaluate(expr.left, cur, E, I))

\* evaluate_unary once the operand is evaluated
evaluate_unary_operator(operator, right) ==
    IF ~right.ok THEN right
    ELSE Lifted(UnaryOp(operator, right.v), right.envs, right.insts)

evaluate_unary(expr, cur, E, I) ==
    evaluate_unary_operator(expr.operator, evaluate(expr.right, cur, E, I))

\* the try of evaluate_assign, a being what Environment.assign did
evaluate_assign_done(value, a) ==
    IF a.ok THEN EOk(value.v, a.envs, value.insts)
    ELSE EFail("Assignment error: " \o a.msg, value.envs, value.insts)

\* evaluate_assign once the value is evaluated
evaluate_assign_value(expr, cur, value) ==
    IF ~value.ok THEN value
    ELSE evaluate_assign_done(value,
                              Environment_assign(value.envs, cur, expr.name, value.v))

evaluate_assign(expr, cur, E, I) ==
    evaluate_assign_value(expr, cur, evaluate(expr.value, cur, E, I))

\* evaluate_get once the object is evaluated
evaluate_get_object(expr, obj) ==
    IF ~obj.ok THEN obj
    ELSE IF obj.v.k = "inst"
    THEN ToyInstance_get(obj.envs, obj.insts, obj.v, expr.name)
    ELSE EFail("Only instances have properties.", obj.envs, obj.insts)

evaluate_get(expr, cur, E, I) ==
    evaluate_get_object(expr, evaluate(expr.object, cur, E, I))

evaluate(expr, cur, E, I) ==
    CASE EvaluateHandler(expr) = "literal" -> EOk(expr.value, E, I)
      [] EvaluateHandler(expr) = "look_up_variable" ->
            look_up_variable(Environment_get(E, cur, expr.name), E, I)
      [] EvaluateHandler(expr) = "evaluate_binary" -> evaluate_binary(expr, cur, E, I)
      [] EvaluateHandler(expr) = "evaluate_unary" -> evaluate_unary(expr, cur, E, I)
      [] EvaluateHandler(expr) = "evaluate_assign" -> evaluate_assign(expr, cur, E, I)
      [] EvaluateHandler(expr) = "evaluate_get" -> evaluate_get(expr, cur, E, I)
      [] EvaluateHandler(expr) = "lambda" -> EOk(ToyLambda(expr, cur), E, I)
      [] EvaluateHandler(expr) = "none" -> EOk(Null, E, I)

\* arguments.append(value), rest being the arguments after it
Arguments(v, rest) ==
    IF ~rest.ok THEN rest ELSE EOk(<<v>> \o rest.v, rest.envs, rest.insts)

\* the values of the later arguments, then this one before them
Arguments_before(a, rest) ==
    IF ~a.ok THEN a ELSE EOk(<<a.v>> \o rest.v, a.envs, a.insts)

\* the arguments of a call evaluated from the last to the first
RECURSIVE evaluate_arguments_reversed(_, _, _, _)
evaluate_arguments_reversed_first(args, cur, rest) ==
    IF ~rest.ok THEN rest
    ELSE Arguments_before(evaluate(Head(args), cur, rest.envs, rest.insts), rest)

evaluate_arguments_reversed(args, cur, E, I) ==
    IF args = <<>> THEN EOk(<<>>, E, I)
    ELSE evaluate_arguments_reversed_first(
             args, cur, evaluate_arguments_reversed(Tail(args), cur, E, I))

\* the arguments of a call, left to right
RECURSIVE evaluate_arguments(_, _, _, _)
\* the loop of evaluate_call after its first round
evaluate_arguments_rest(args, cur, a) ==
    IF ~a.ok THEN a
    ELSE Arguments(a.v, evaluate_arguments(Tail(args), cur, a.envs, a.insts))

evaluate_arguments(args, cur, E, I) ==
    IF args = <<>> THEN EOk(<<>>, E, I)
    ELSE evaluate_arguments_rest(args, cur, evaluate(Head(args), cur, E, I))

----------------------------------------------------------------------------
(* Interpreter.execute: threads, Python frames and exceptions *)

NoExc == [type |-> "none"]
\* raise RuntimeError(msg)
RuntimeError(msg) == [type |-> "RuntimeError", msg |-> msg]
\* the exception a failed evaluation raised
Raised(r) == [type |-> r.type, msg |-> r.msg]
\* raise Return(value)
ReturnExc(value) == [type |-> "Return", value |-> value]

\* a loop over a statement list: interpret's (role "interpret"), execute_block's
\* (role "block"; environment and previous are its parameter and its local of
\* those names) or the one statement handed to executor.submit (role "branch")
StmtsFrame(role, stmts, env, previous) ==
    [kind |-> "stmts", role |-> role, stmts |-> stmts, pc |-> 1,
     phase |-> "eval", tmp |-> Null, environment |-> env, previous |-> previous]
\* the two for loops of execute_repeat: left is what range(count) has yet to
\* yield, and the inner loop starts when the outer one yields
RepeatFrame(body, count) ==
    [kind |-> "stmts", role |-> "repeat", stmts |-> body, pc |-> Len(body) + 1,
     phase |-> "eval", tmp |-> Null, environment |-> 0, previous |-> 0,
     left |-> count]
\* ToyFunction.call waiting in its try for execute_block
CallFrame == [kind |-> "call"]
\* ToyClass.call waiting for the initializer
ConstructFrame(instance) == [kind |-> "construct", instance |-> instance]
\* execute_parallel waiting for its futures
ParallelFrame(n) == [kind |-> "parallel", n |-> n, collected |-> {}]

\* the class a name denotes in execution_evaluation.py when execute runs: the
\* import binds the AST classes, the class statement of line 14 rebinds Return
ModuleName(n) ==
    IF n = "Return" THEN "execution_evaluation.Return" ELSE "syntax_analysis." \o n

\* isinstance(stmt, <name>) for an AST node
IsInstance(stmt, n) == ("syntax_analysis." \o stmt.cls) = ModuleName(n)

\* the isinstance chain of Interpreter.execute: the method that runs the
\* statement, "none" when no branch matches
ExecuteHandler(stmt) ==
    CASE IsInstance(stmt, "Expression") -> "evaluate"
      [] IsInstance(stmt, "Print") -> "execute_print"
      [] IsInstance(stmt, "Let") -> "execute_let"
      [] IsInstance(stmt, "Block") -> "execute_block"
      [] IsInstance(stmt, "Function") -> "execute_function"
      [] IsInstance(stmt, "Return") -> "execute_return"
      [] IsInstance(stmt, "Class") -> "execute_class"
      [] IsInstance(stmt, "Parallel") -> "execute_parallel"
      [] IsInstance(stmt, "Repeat") -> "execute_repeat"
      [] IsInstance(stmt, "Delete") -> "execute_delete"
      [] OTHER -> "none"

Stack(t) == threads[t].stack
Top(t) == Stack(t)[Len(Stack(t))]
Running(t) ==
    /\ threads[t].status = "running"
    /\ threads[t].exc = NoExc
    /\ Stack(t) # <<>>
AtStmt(t) ==
    /\ Running(t)
    /\ Top(t).kind = "stmts"
    /\ Top(t).pc <= Len(Top(t).stmts)
Stmt(t) == Top(t).stmts[Top(t).pc]

Pop(st) == SubSeq(st, 1, Len(st) - 1)
SetTop(st, f) == [st EXCEPT ![Len(st)] = f]
\* the statement loop of the top frame moves on to its next statement
Advance(st) ==
    SetTop(st, [st[Len(st)] EXCEPT !.pc = @ + 1, !.phase = "eval", !.tmp = Null])
\* the value of the expression being awaited by the top frame has arrived
Deliver(st, v) ==
    SetTop(st, [st[Len(st)] EXCEPT !.phase = "commit", !.tmp = v])

\* the expression whose value a statement needs before it acts; a statement
\* that is an assignment needs the value of its right-hand side
ValueExpr(stmt) ==
    CASE stmt.cls = "Expression" ->
            IF stmt.expression.cls = "Assign" THEN stmt.expression.value
            ELSE stmt.expression
      [] stmt.cls = "Print" -> stmt.expression
      [] stmt.cls = "Let" -> stmt.initializer
      [] stmt.cls = "Return" -> stmt.value

HasValue(stmt) ==
    ExecuteHandler(stmt) \in {"evaluate", "execute_print", "execute_let", "execute_return"}

\* the outcome r of an evaluation reaches the statement that asked for it:
\* its value, or the exception it raised
Evaluated(t, r) ==
    /\ envs' = r.envs
    /\ insts' = r.insts
    /\ threads' = IF r.ok
                  THEN [threads EXCEPT ![t].stack = Deliver(@, r.v)]
                  ELSE [threads EXCEPT ![t].exc = Raised(r)]

\* evaluate(...) of the statement's expression, anything but a call
Evaluate(t) ==
    /\ AtStmt(t)
    /\ HasValue(Stmt(t))
    /\ Top(t).phase = "eval"
    /\ ValueExpr(Stmt(t)).cls # "Call"
    /\ Evaluated(t, IF ValueExpr(Stmt(t)) = NoExpr THEN EOk(Null, envs, insts)
                    ELSE evaluate(ValueExpr(Stmt(t)), environment, envs, insts))
    /\ UNCHANGED <<environment, output, prog, result, op, cli, front>>

\* environment.define(param, arguments[i]) for each parameter from the i-th
RECURSIVE DefineParams(_, _, _, _, _)
DefineParams(E, id, params, arguments, i) ==
    IF i > Len(params) THEN E
    ELSE DefineParams(Environment_define(E, id, params[i], arguments[i]),
                      id, params, arguments, i + 1)

\* ToyFunction.call up to where execute_block has switched self.environment
EnterFunction(t, fn, arguments, E, I, under) ==
    /\ envs' = DefineParams(Append(E, NewEnvironment(fn.closure)), Len(E) + 1,
                            fn.declaration.params, arguments, 1)
    /\ insts' = I
    /\ environment' = Len(E) + 1
    /\ threads' = [threads EXCEPT ![t].stack =
                      @ \o under \o <<CallFrame,
                                       StmtsFrame("block", fn.declaration.body,
                                                  Len(E) + 1, environment)>>]

\* ToyClass.call once the initializer is bound to the new instance
Construct(t, instance, b, arguments, I) ==
    EnterFunction(t, b.v, arguments, b.envs, I, <<ConstructFrame(instance)>>)

\* callee.call(self, arguments) for each class of callable
Invoke(t, callee, arguments, E, I) ==
    CASE callee.k = "fn" -> EnterFunction(t, callee, arguments, E, I, <<>>)
      [] callee.k = "method" ->
            EnterFunction(t, callee.bound_method, arguments, E, I, <<>>)
      [] callee.k = "class" ->
            IF ToyClass_find_method(callee, "init") # Null
            THEN Construct(t, InstRef(Len(I) + 1, callee.name),
                           ToyFunction_bind(E, ToyClass_find_method(callee, "init"),
                                            InstRef(Len(I) + 1, callee.name)),
                           arguments,
                           Append(I, [klass |-> callee, fields |-> EmptyMap]))
            ELSE /\ envs' = E
                 /\ insts' = Append(I, [klass |-> callee, fields |-> EmptyMap])
                 /\ environment' = environment
                 /\ threads' = [threads EXCEPT ![t].stack =
                                   Deliver(@, InstRef(Len(I) + 1, callee.name))]
      [] callee.k = "lambda" ->
            \* the Environment that ToyLambda.call fills is never made current:
            \* the body is evaluated in self.environment
            /\ Evaluated(t, evaluate(callee.declaration.body, environment,
                                     DefineParams(Append(E, NewEnvironment(callee.closure)),
                                                  Len(E) + 1, callee.declaration.params,
                                                  arguments, 1),
                                     I))
            /\ environment' = environment

\* evaluate_call raises e on the heaps that r left
CallRaise(t, r, e) ==
    /\ envs' = r.envs
    /\ insts' = r.insts
    /\ environment' = environment
    /\ threads' = [threads EXCEPT ![t].exc = e]

\* evaluate_call once the arguments are evaluated
evaluate_call_checked(t, callee, arguments) ==
    IF ~arguments.ok THEN CallRaise(t, arguments, Raised(arguments))
    ELSE IF ~IsCallable(callee)
    THEN CallRaise(t, arguments, RuntimeError("Can only call functions and classes."))
    ELSE IF Len(arguments.v) # Arity(callee)
    THEN CallRaise(t, arguments,
                   RuntimeError("Expected " \o IntToStr(Arity(callee))
                                \o " arguments but got "
                                \o IntToStr(Len(arguments.v)) \o "."))
    ELSE Invoke(t, callee, arguments.v, arguments.envs, arguments.insts)

\* evaluate_call once the callee is evaluated
evaluate_call_arguments(t, expr, callee) ==
    IF ~callee.ok THEN CallRaise(t, callee, Raised(callee))
    ELSE evaluate_call_checked(t, callee.v,
                               evaluate_arguments(expr.arguments, environment,
                                                  callee.envs, callee.insts))

\* evaluate_call
EvaluateCall(t) ==
    /\ AtStmt(t)
    /\ HasValue(Stmt(t))
    /\ Top(t).phase = "eval"
    /\ ValueExpr(Stmt(t)).cls = "Call"
    /\ evaluate_call_arguments(t, ValueExpr(Stmt(t)),
                               evaluate(ValueExpr(Stmt(t)).callee, environment,
                                        envs, insts))
    /\ UNCHANGED <<output, prog, result, op, cli, front>>

\* what a statement does with the value of its expression: the assign of
\* evaluate_assign, the print of execute_print, the define of execute_let,
\* the raise of execute_return
Commit(t) ==
    /\ AtStmt(t)
    /\ HasValue(Stmt(t))
    /\ Top(t).phase = "commit"
    /\ LET stmt == Stmt(t)
           h == ExecuteHandler(stmt)
           value == Top(t).tmp
           next == [threads EXCEPT ![t].stack = Advance(@)]
       IN CASE h = "evaluate" /\ stmt.expression.cls = "Assign" ->
                 LET a == Environment_assign(envs, environment, stmt.expression.name, value)
                 IN /\ envs' = a.envs
                    /\ output' = output
                    /\ threads' = IF a.ok THEN next
                                  ELSE [threads EXCEPT ![t].exc =
                                           RuntimeError("Assignment error: " \o a.msg)]
            [] h = "evaluate" /\ stmt.expression.cls # "Assign" ->
                 /\ envs' = envs
                 /\ output' = output
                 /\ threads' = next
            [] h = "execute_print" ->
                 /\ envs' = envs
                 /\ output' = Append(output, stringify(value))
                 /\ threads' = next
            [] h = "execute_let" ->
                 /\ envs' = Environment_define(envs, environment, stmt.name, value)
                 /\ output' = output
                 /\ threads' = next
            [] h = "execute_return" ->
                 /\ envs' = envs
                 /\ output' = output
                 /\ threads' = [threads EXCEPT ![t].exc = ReturnExc(value)]
    /\ UNCHANGED <<insts, environment, prog, result, op, cli, front>>

\* execute(Block): execute_block(stmt.statements, Environment(self.environment))
ExecuteBlock(t) ==
    /\ AtStmt(t)
    /\ ExecuteHandler(Stmt(t)) = "execute_block"
    /\ envs' = Append(envs, NewEnvironment(environment))
    /\ environment' = Len(envs) + 1
    /\ threads' = [threads EXCEPT ![t].stack =
                      Append(@, StmtsFrame("block", Stmt(t).statements,
                                           Len(envs) + 1, environment))]
    /\ UNCHANGED <<insts, output, prog, result, op, cli, front>>

\* an execute_function that gives the function a copy of the environment
execute_function_copy(E, cur, stmt) ==
    Environment_define(Append(E, E[cur]), cur, stmt.name,
                       ToyFunction(stmt, Len(E) + 1))

\* execute_function: the function captures self.environment itself
execute_function(E, cur, stmt) ==
    Environment_define(E, cur, stmt.name, ToyFunction(stmt, cur))

ExecuteFunction(t) ==
    /\ AtStmt(t)
    /\ ExecuteHandler(Stmt(t)) = "execute_function"
    /\ envs' = execute_function(envs, environment, Stmt(t))
    /\ threads' = [threads EXCEPT ![t].stack = Advance(@)]
    /\ UNCHANGED <<insts, environment, output, prog, result, op, cli, front>>

\* execute_class: define the name as None, build the methods, assign the class
execute_class(E, cur, stmt) ==
    LET E1 == Environment_define(E, cur, stmt.name, Null)
        names == {stmt.methods[i].name : i \in 1..Len(stmt.methods)}
        \* a later method of the same name replaces an earlier one
        last(n) == CHOOSE i \in 1..Len(stmt.methods) :
                      /\ stmt.methods[i].name = n
                      /\ \A j \in 1..Len(stmt.methods) :
                            stmt.methods[j].name = n => j <= i
        methods == [n \in names |-> ToyFunction(stmt.methods[last(n)], cur)]
    IN Environment_assign(E1, cur, stmt.name, ToyClass(stmt.name, methods)).envs

ExecuteClass(t) ==
    /\ AtStmt(t)
    /\ ExecuteHandler(Stmt(t)) = "execute_class"
    /\ envs' = execute_class(envs, environment, Stmt(t))
    /\ threads' = [threads EXCEPT ![t].stack = Advance(@)]
    /\ UNCHANGED <<insts, environment, output, prog, result, op, cli, front>>

\* the count of execute_repeat: int(count) of an int, bool or float
RepeatCount(count) ==
    IF IsNumber(count) THEN Ok(PyInt(count))
    ELSE Fail("Repeat count must be a number.")

\* execute_repeat once the count is evaluated
execute_repeat_count(t, count, n) ==
    /\ envs' = count.envs
    /\ insts' = count.insts
    /\ threads' =
          IF ~count.ok THEN [threads EXCEPT ![t].exc = Raised(count)]
          ELSE IF ~n.ok THEN [threads EXCEPT ![t].exc = Raised(n)]
          ELSE [threads EXCEPT ![t].stack = Append(@, RepeatFrame(Stmt(t).body, n.v))]

execute_repeat(t, count) == execute_repeat_count(t, count, RepeatCount(count.v))

\* execute_repeat up to its loops
ExecuteRepeat(t) ==
    /\ AtStmt(t)
    /\ ExecuteHandler(Stmt(t)) = "execute_repeat"
    /\ execute_repeat(t, evaluate(Stmt(t).count, environment, envs, insts))
    /\ UNCHANGED <<environment, output, prog, result, op, cli, front>>

\* for _ in range(count): the next round of the body, or the end of the loop
RepeatIterate(t) ==
    /\ Running(t)
    /\ Top(t).kind = "stmts"
    /\ Top(t).role = "repeat"
    /\ Top(t).pc > Len(Top(t).stmts)
    /\ threads' = IF Top(t).left > 0
                  THEN [threads EXCEPT ![t].stack =
                           SetTop(@, [Top(t) EXCEPT !.pc = 1, !.left = @ - 1])]
                  ELSE [threads EXCEPT ![t].stack = Advance(Pop(@))]
    /\ UNCHANGED <<envs, insts, environment, output, prog, result, op, cli, front>>

\* execute_delete of a property once the object is evaluated
execute_delete_property(name, obj) ==
    IF ~obj.ok THEN obj
    ELSE IF obj.v.k = "inst"
    THEN IF name \in DOMAIN obj.insts[obj.v.id].fields
         THEN EOk(Null, obj.envs,
                  [obj.insts EXCEPT ![obj.v.id].fields[name] = Null])
         ELSE EFail("Cannot delete undefined property '" \o name \o "'.",
                    obj.envs, obj.insts)
    ELSE EFail("Can only delete object properties.", obj.envs, obj.insts)

\* execute_delete: the heaps it leaves, or the RuntimeError it raises
execute_delete(E, I, cur, stmt) ==
    IF stmt.expression.cls = "Variable"
    THEN IF stmt.expression.name \in DOMAIN E[cur].values
         THEN EOk(Null, [E EXCEPT ![cur].values[stmt.expression.name] = Null], I)
         ELSE EFail("Cannot delete undefined variable '"
                    \o stmt.expression.name \o "'.", E, I)
    ELSE IF stmt.expression.cls = "Get"
    THEN execute_delete_property(stmt.expression.name,
                                 evaluate(stmt.expression.object, cur, E, I))
    ELSE EFail("Invalid delete target.", E, I)

\* the statement is done, or the exception it raised is on its way
Executed(t, r) ==
    /\ envs' = r.envs
    /\ insts' = r.insts
    /\ threads' = IF r.ok
                  THEN [threads EXCEPT ![t].stack = Advance(@)]
                  ELSE [threads EXCEPT ![t].exc = Raised(r)]

ExecuteDelete(t) ==
    /\ AtStmt(t)
    /\ ExecuteHandler(Stmt(t)) = "execute_delete"
    /\ Executed(t, execute_delete(envs, insts, environment, Stmt(t)))
    /\ UNCHANGED <<environment, output, prog, result, op, cli, front>>

\* execute(stmt) when no isinstance test matches: nothing happens
ExecuteNothing(t) ==
    /\ AtStmt(t)
    /\ ExecuteHandler(Stmt(t)) = "none"
    /\ threads' = [threads EXCEPT ![t].stack = Advance(@)]
    /\ UNCHANGED <<envs, insts, environment, output, prog, result, op, cli, front>>

\* the frame under a finished execute_block resumes: a statement loop goes on
\* to its next statement, a call keeps waiting for CallReturn
Resume(st) == IF st # <<>> /\ st[Len(st)].kind = "stmts" THEN Advance(st) ELSE st

\* an execute_block without its try: an exception that leaves the loop leaves
\* self.environment as it is
execute_block_no_finally(f, cur, e) == IF e = NoExc THEN f.previous ELSE cur

\* the finally clause of execute_block, run whether the loop ended or the
\* exception e left it: self.environment = previous
execute_block_finally(f, cur, e) == f.previous

\* execute_block after the last statement
FinishBlock(t) ==
    /\ Running(t)
    /\ Top(t).kind = "stmts"
    /\ Top(t).role = "block"
    /\ Top(t).pc > Len(Top(t).stmts)
    /\ environment' = execute_block_finally(Top(t), environment, NoExc)
    /\ threads' = [threads EXCEPT ![t].stack = Resume(Pop(@))]
    /\ UNCHANGED <<envs, insts, output, prog, result, op, cli, front>>

\* a ToyClass.call that returns what the initializer returned
Returned_initializer(st, v) ==
    LET below == Pop(st) IN
    IF below # <<>> /\ below[Len(below)].kind = "construct"
    THEN Deliver(Pop(below), v)
    ELSE Deliver(below, v)

\* the value a returning ToyFunction.call hands to its caller: under
\* ToyClass.call the function's value is dropped and the instance returned
Returned(st, v) ==
    LET below == Pop(st) IN
    IF below # <<>> /\ below[Len(below)].kind = "construct"
    THEN Deliver(Pop(below), below[Len(below)].instance)
    ELSE Deliver(below, v)

\* ToyFunction.call after execute_block ended without exception: return None
CallReturn(t) ==
    /\ Running(t)
    /\ Top(t).kind = "call"
    /\ threads' = [threads EXCEPT ![t].stack = Returned(@, Null)]
    /\ UNCHANGED <<envs, insts, environment, output, prog, result, op, cli, front>>

\* str(e) of an exception
ExcText(e) ==
    IF e.type = "Return" THEN "Return value: " \o PyStr(e.value) ELSE e.msg

\* an interpret that goes on with the next statement once it has reported
interpret_resume(th) == [th EXCEPT !.stack = Advance(@), !.exc = NoExc]

\* the exception leaves the for loop of interpret, and interpret
interpret_leave(th) == [th EXCEPT !.stack = <<>>, !.status = "done"]

\* an exception leaves the top frame
Unwind(t) ==
    /\ threads[t].status = "running"
    /\ threads[t].exc # NoExc
    /\ Stack(t) # <<>>
    /\ LET f == Top(t)
           e == threads[t].exc
       IN CASE f.kind = "stmts" /\ f.role = "block" ->
                 /\ environment' = execute_block_finally(f, environment, e)
                 /\ threads' = [threads EXCEPT ![t].stack = Pop(@)]
                 /\ UNCHANGED <<output, result>>
            [] f.kind = "call" ->
                 \* except Return as return_value: return return_value.value
                 /\ threads' = IF e.type = "Return"
                               THEN [threads EXCEPT ![t].stack = Returned(@, e.value),
                                                    ![t].exc = NoExc]
                               ELSE [threads EXCEPT ![t].stack = Pop(@)]
                 /\ UNCHANGED <<environment, output, result>>
            [] f.kind = "construct" ->
                 /\ threads' = [threads EXCEPT ![t].stack = Pop(@)]
                 /\ UNCHANGED <<environment, output, result>>
            [] f.kind = "stmts" /\ f.role = "repeat" ->
                 /\ threads' = [threads EXCEPT ![t].stack = Pop(@)]
                 /\ UNCHANGED <<environment, output, result>>
            [] f.kind = "stmts" /\ f.role = "interpret" ->
                 \* except RuntimeError: print and return False; any other
                 \* exception leaves interpret
                 /\ threads' = [threads EXCEPT ![t] = interpret_leave(@)]
                 /\ output' = IF e.type = "RuntimeError"
                              THEN Append(output, "Runtime Error: " \o e.msg)
                              ELSE output
                 /\ result' = IF e.type = "RuntimeError" THEN "False" ELSE "exception"
                 /\ UNCHANGED environment
            [] f.kind = "stmts" /\ f.role = "branch" ->
                 \* the future keeps the exception
                 /\ threads' = [threads EXCEPT ![t].stack = <<>>, ![t].status = "done"]
                 /\ UNCHANGED <<environment, output, result>>
    /\ UNCHANGED <<envs, insts, prog, op, cli, front>>

\* interpret after the last statement: return True
FinishInterpret(t) ==
    /\ Running(t)
    /\ Top(t).kind = "stmts"
    /\ Top(t).role = "interpret"
    /\ Top(t).pc > Len(Top(t).stmts)
    /\ threads' = [threads EXCEPT ![t].stack = <<>>, ![t].status = "done"]
    /\ result' = "True"
    /\ UNCHANGED <<envs, insts, environment, output, prog, op, cli, front>>

\* the statement of a future has been executed
FinishBranch(t) ==
    /\ Running(t)
    /\ Top(t).kind = "stmts"
    /\ Top(t).role = "branch"
    /\ Top(t).pc > Len(Top(t).stmts)
    /\ threads' = [threads EXCEPT ![t].stack = <<>>, ![t].status = "done"]
    /\ UNCHANGED <<envs, insts, environment, output, prog, result, op, cli, front>>

----------------------------------------------------------------------------
(* execute_parallel *)

\* an execute_parallel that goes on as soon as one future has completed
FirstFutureCompleted(f) == f.collected # {}

\* the as_completed loop has yielded every future, and leaving the with
\* block has joined the workers
FuturesCompleted(f) == f.collected = 1..f.n

\* a future.result() outside any try: the exception reaches the caller
future_result_uncaught(e) == e

\* the exception that leaves the try around future.result(): none, the
\* except clause takes every Exception
future_result(e) == NoExc

\* submit every statement of the body to the pool and start waiting
ExecuteParallel(t) ==
    /\ t = 0
    /\ AtStmt(t)
    /\ ExecuteHandler(Stmt(t)) = "execute_parallel"
    /\ Len(Stmt(t).body) <= MaxBranches
    /\ threads' = [i \in DOMAIN threads |->
                     IF i = t
                     THEN [threads[t] EXCEPT !.stack =
                              Append(@, ParallelFrame(Len(Stmt(t).body)))]
                     ELSE IF i \in 1..Len(Stmt(t).body)
                     THEN [stack |-> <<StmtsFrame("branch", <<Stmt(t).body[i]>>, 0, 0)>>,
                           exc |-> NoExc, status |-> "running"]
                     ELSE [stack |-> <<>>, exc |-> NoExc, status |-> "idle"]]
    /\ UNCHANGED <<envs, insts, environment, output, prog, result, op, cli, front>>

\* one round of the as_completed loop: future.result() of a completed future,
\* and the print of the except clause when it raised
Collect(t, i) ==
    /\ Running(t)
    /\ Top(t).kind = "parallel"
    /\ i \in 1..Top(t).n
    /\ i \notin Top(t).collected
    /\ threads[i].status = "done"
    /\ output' = IF threads[i].exc # NoExc
                 THEN Append(output, "Error in parallel execution: "
                                       \o ExcText(threads[i].exc))
                 ELSE output
    /\ threads' = [threads EXCEPT
                     ![t].stack = SetTop(@, [Top(t) EXCEPT !.collected = @ \cup {i}]),
                     ![t].exc = future_result(threads[i].exc)]
    /\ UNCHANGED <<envs, insts, environment, prog, result, op, cli, front>>

\* execute_parallel returns
ParallelExit(t) ==
    /\ threads[t].status = "running"
    /\ Stack(t) # <<>>
    /\ Top(t).kind = "parallel"
    /\ IF threads[t].exc = NoExc
       THEN /\ FuturesCompleted(Top(t))
            /\ threads' = [threads EXCEPT ![t].stack = Advance(Pop(@))]
       ELSE \* an exception leaves the with block once the workers are joined
            /\ \A i \in 1..Top(t).n : threads[i].status = "done"
            /\ threads' = [threads EXCEPT ![t].stack = Pop(@)]
    /\ UNCHANGED <<envs, insts, environment, output, prog, result, op, cli, front>>

----------------------------------------------------------------------------
(* Programs: the statement lists handed to interpret *)

Num(a) == Literal(IntV(a))
Text(s) == Literal(StrV(s))
Var(n) == Variable(n)
CallStmt(f, args) == Expression(Call(Var(f), args))

Args == 1..MaxArg

\* function square(x) { return x * x; } print square(a);
SquareProgram(a) ==
    << Function("square", <<"x">>, <<ReturnStmt(Binary(Var("x"), "*", Var("x")))>>),
       PrintStmt(Call(Var("square"), <<Num(a)>>)) >>

\* function f(x) { return x; print "after"; } print f(a);
ReturnEarlyProgram(a) ==
    << Function("f", <<"x">>, <<ReturnStmt(Var("x")), PrintStmt(Text("after"))>>),
       PrintStmt(Call(Var("f"), <<Num(a)>>)) >>

\* let x = a; function f() { print x; x = x + b; } x = x + 1; f(); print x;
ClosureProgram(a, b) ==
    << Let("x", Num(a)),
       Function("f", <<>>, <<PrintStmt(Var("x")),
                             Expression(Assign("x", Binary(Var("x"), "+", Num(b))))>>),
       Expression(Assign("x", Binary(Var("x"), "+", Num(1)))),
       CallStmt("f", <<>>),
       PrintStmt(Var("x")) >>

\* class Greeter { init(n) { this.<field> = n; } hi() { print "hi " + this.<field>; } }
\* let g = new Greeter(<who>); g.hi();
GreeterProgram(field, who) ==
    << Class("Greeter",
             << Function("init", <<"n">>,
                         <<Expression(Set(Var("this"), field, Var("n")))>>),
                Function("hi", <<>>,
                         <<PrintStmt(Binary(Text("hi "), "+", Get(Var("this"), field)))>>) >>),
       Let("g", Call(Var("Greeter"), <<Text(who)>>)),
       Expression(Call(Get(Var("g"), "hi"), <<>>)) >>

\* class A { m() { } } let g = new A(); print g.<property>; print "next";
PropertyProgram(property) ==
    << Class("A", <<Function("m", <<>>, <<>>)>>),
       Let("g", Call(Var("A"), <<>>)),
       PrintStmt(Get(Var("g"), property)),
       PrintStmt(Text("next")) >>

\* class A { init(p, q) { print p; print q; return 7; } }
\* let g = new A(a, b); let h = new A(b, a); let k = new A(a); print "next";
ConstructorProgram(a, b) ==
    << Class("A", <<Function("init", <<"p", "q">>,
                             <<PrintStmt(Var("p")), PrintStmt(Var("q")),
                               ReturnStmt(Num(7))>>)>>),
       Let("g", Call(Var("A"), <<Num(a), Num(b)>>)),
       Let("h", Call(Var("A"), <<Num(b), Num(a)>>)),
       Let("k", Call(Var("A"), <<Num(a)>>)),
       PrintStmt(Text("next")) >>

\* class B { } let g = new B(); let h = new B(); let k = new B(a); print "next";
NoInitProgram(a) ==
    << Class("B", <<>>),
       Let("g", Call(Var("B"), <<>>)),
       Let("h", Call(Var("B"), <<>>)),
       Let("k", Call(Var("B"), <<Num(a)>>)),
       PrintStmt(Text("next")) >>

\* let n = a; class A { get() { print n; } } let g = new A(); let h = new A();
\* let m = g.get; let k = h.get; n = b; { let n = 0; m(); h.get(); k(); } print m;
BoundMethodProgram(a, b) ==
    << Let("n", Num(a)),
       Class("A", <<Function("get", <<>>, <<PrintStmt(Var("n"))>>)>>),
       Let("g", Call(Var("A"), <<>>)),
       Let("h", Call(Var("A"), <<>>)),
       Let("m", Get(Var("g"), "get")),
       Let("k", Get(Var("h"), "get")),
       Expression(Assign("n", Num(b))),
       Block(<< Let("n", Num(0)),
                CallStmt("m", <<>>),
                Expression(Call(Get(Var("h"), "get"), <<>>)),
                CallStmt("k", <<>>) >>),
       PrintStmt(Var("m")) >>

\* let x = a; { delete(x); print x; } print x;
DeleteOuterProgram(a) ==
    << Let("x", Num(a)),
       Block(<<Delete(Var("x")), PrintStmt(Var("x"))>>),
       PrintStmt(Var("x")) >>

\* let x = a; { let x = a; delete(x); print x; } print x; delete(y);
DeleteProgram(a) ==
    << Let("x", Num(a)),
       Block(<<Let("x", Num(a)), Delete(Var("x")), PrintStmt(Var("x"))>>),
       PrintStmt(Var("x")),
       Delete(Var("y")) >>

\* let square = (x) => x * x; print square(a);
LambdaProgram(a) ==
    << Let("square", Lambda(<<"x">>, Binary(Var("x"), "*", Var("x")))),
       PrintStmt(Call(Var("square"), <<Num(a)>>)) >>

\* let x = 7; let f = (x) => x; { let x = 8; print f(a); }
LambdaShadowProgram(a) ==
    << Let("x", Num(7)),
       Let("f", Lambda(<<"x">>, Var("x"))),
       Block(<<Let("x", Num(8)), PrintStmt(Call(Var("f"), <<Num(a)>>))>>) >>

\* the two arguments x = x + 1, x = x * 3
OrderedArgs ==
    << Assign("x", Binary(Var("x"), "+", Num(1))),
       Assign("x", Binary(Var("x"), "*", Num(3))) >>

\* let x = a; class A { m(p, q) { print p; print q; } } let g = new A();
\* g.m(x = x + 1, x = x * 3); print x;
CallOrderProgram(a) ==
    << Let("x", Num(a)),
       Class("A", <<Function("m", <<"p", "q">>,
                             <<PrintStmt(Var("p")), PrintStmt(Var("q"))>>)>>),
       Let("g", Call(Var("A"), <<>>)),
       Expression(Call(Get(Var("g"), "m"), OrderedArgs)),
       PrintStmt(Var("x")) >>

\* let x = a; function f(p) { print "in"; } f(x = x + 1, x = x * 3); print x;
CallArityProgram(a) ==
    << Let("x", Num(a)),
       Function("f", <<"p">>, <<PrintStmt(Text("in"))>>),
       Expression(Call(Var("f"), OrderedArgs)),
       PrintStmt(Var("x")) >>

\* let x = a; x(x = x + 1, x = x * 3); print x;
CallNumberProgram(a) ==
    << Let("x", Num(a)),
       Expression(Call(Var("x"), OrderedArgs)),
       PrintStmt(Var("x")) >>

\* the count expressions of the repeat programs: a, 2.5, -1.5, null, "2",
\* 1 < 2, 1 < 0 and n = n + 2
RepeatCounts ==
    {Num(a) : a \in 0..MaxArg}
    \cup { Literal(FloatV(5, 2)),
           Unary("-", Literal(FloatV(3, 2))),
           Literal(Null),
           Text("2"),
           Binary(Num(1), "<", Num(2)),
           Binary(Num(1), "<", Num(0)),
           Assign("n", Binary(Var("n"), "+", Num(2))) }

\* let n = 0; repeat <count> times { n = n + 1; print n; } print "end";
RepeatProgram(count) ==
    << Let("n", Num(0)),
       Repeat(count, << Expression(Assign("n", Binary(Var("n"), "+", Num(1)))),
                        PrintStmt(Var("n")) >>),
       PrintStmt(Text("end")) >>

\* operands that coerce to zero: 0, "0", 1 < 0 (false) and 0 * 2.5 (0.0)
ZeroOperands ==
    { Num(0), Text("0"), Binary(Num(1), "<", Num(0)),
      Binary(Num(0), "*", Literal(FloatV(5, 2))) }

\* operands that coerce to a number other than zero: 2, "2", 0.5
NonZeroOperands == {Num(2), Text("2"), Literal(FloatV(1, 2))}

\* the dividends: a, "4", 2.5 and 1 < 2 (true)
Dividends ==
    {Num(a) : a \in Args}
    \cup {Text("4"), Literal(FloatV(5, 2)), Binary(Num(1), "<", Num(2))}

\* print "go"; print <left> <operator> <right>; print "after";
DivisionProgram(operator, left, right) ==
    << PrintStmt(Text("go")),
       PrintStmt(Binary(left, operator, right)),
       PrintStmt(Text("after")) >>

\* the right operands of the concatenations: null, 1 < 2, 10 / 5, 2.5, a, "s"
ConcatOperands ==
    {Num(a) : a \in Args}
    \cup { Literal(Null), Binary(Num(1), "<", Num(2)),
           Binary(Num(10), "/", Num(5)), Literal(FloatV(5, 2)), Text("s") }

\* print "v = " + <operand>; print <operand> + " = v"; print <operand>;
ConcatProgram(operand) ==
    << PrintStmt(Binary(Text("v = "), "+", operand)),
       PrintStmt(Binary(operand, "+", Text(" = v"))),
       PrintStmt(operand) >>

\* the statements a parallel block is made of
BranchStmts ==
    { PrintStmt(Var("y")),                                  \* fails: y is unbound
      Block(<<Let("v", Num(2)), PrintStmt(Var("v"))>>),     \* opens a scope
      Let("z", Num(3)),
      CallStmt("f", <<>>) }                                 \* opens a scope

RECURSIVE SeqsUpTo(_, _)
SeqsUpTo(S, n) ==
    IF n = 0 THEN {<<>>}
    ELSE LET shorter == SeqsUpTo(S, n - 1)
         IN shorter \cup {Append(q, x) : q \in shorter, x \in S}

\* let x = 1; function f() { let w = 1; } parallel { <body> } print "end";
ParallelProgram(body) ==
    << Let("x", Num(1)),
       Function("f", <<>>, <<Let("w", Num(1))>>),
       Parallel(body),
       PrintStmt(Text("end")) >>

\* let x = a; parallel { x = x + 1; x = x + 1; } print x;
RaceProgram(a) ==
    << Let("x", Num(a)),
       Parallel(<< Expression(Assign("x", Binary(Var("x"), "+", Num(1)))),
                   Expression(Assign("x", Binary(Var("x"), "+", Num(1)))) >>),
       PrintStmt(Var("x")) >>

\* class A { init() { this.m(); } m() { { print <name>; } } }
\* function f() { let g = new A(); } f(); print "end";
NestedProgram(name) ==
    << Class("A", << Function("init", <<>>,
                              <<Expression(Call(Get(Var("this"), "m"), <<>>))>>),
                     Function("m", <<>>, <<Block(<<PrintStmt(name)>>)>>) >>),
       Function("f", <<>>, <<Let("g", Call(Var("A"), <<>>))>>),
       CallStmt("f", <<>>),
       PrintStmt(Text("end")) >>

Programs ==
    {SquareProgram(a) : a \in Args}
    \cup {ReturnEarlyProgram(a) : a \in Args}
    \cup {ClosureProgram(a, b) : a \in Args, b \in Args}
    \cup {GreeterProgram(f, "world") : f \in {"name", "title"}}
    \cup {PropertyProgram(q) : q \in {"zzz", "name", "age", "m"}}
    \cup {ConstructorProgram(a, b) : a \in Args, b \in Args}
    \cup {NoInitProgram(a) : a \in Args}
    \cup {BoundMethodProgram(a, b) : a \in Args, b \in Args}
    \cup {DeleteOuterProgram(a) : a \in Args}
    \cup {DeleteProgram(a) : a \in Args}
    \cup {LambdaProgram(a) : a \in Args}
    \cup {LambdaShadowProgram(a) : a \in Args}
    \cup {CallOrderProgram(a) : a \in Args}
    \cup {CallArityProgram(a) : a \in Args}
    \cup {CallNumberProgram(a) : a \in Args}
    \cup {RepeatProgram(c) : c \in RepeatCounts}
    \cup {DivisionProgram(o, l, r) : o \in {"/", "%"}, l \in Dividends,
                                     r \in ZeroOperands \cup NonZeroOperands}
    \cup {ConcatProgram(x) : x \in ConcatOperands}
    \cup {ParallelProgram(body) : body \in SeqsUpTo(BranchStmts, MaxBranches) \ {<<>>}}
    \cup {RaceProgram(a) : a \in Args}
    \cup {NestedProgram(name) : name \in {Var("y"), Text("in")}}

----------------------------------------------------------------------------
(* Spec: one run of Interpreter.interpret on a fresh Interpreter *)

Init ==
    /\ prog \in Programs
    /\ envs = <<NewEnvironment(0)>>
    /\ insts = <<>>
    /\ environment = 1
    /\ threads = [i \in 0..MaxBranches |->
                    IF i = 0
                    THEN [stack |-> <<StmtsFrame("interpret", prog, 0, 0)>>,
                          exc |-> NoExc, status |-> "running"]
                    ELSE [stack |-> <<>>, exc |-> NoExc, status |-> "idle"]]
    /\ output = <<>>
    /\ result = "running"
    /\ op = NoOp
    /\ cli = NoCli
    /\ front = NoFront

Step(t) ==
    \/ Evaluate(t)
    \/ EvaluateCall(t)
    \/ Commit(t)
    \/ ExecuteBlock(t)
    \/ ExecuteFunction(t)
    \/ ExecuteClass(t)
    \/ ExecuteRepeat(t)
    \/ RepeatIterate(t)
    \/ ExecuteDelete(t)
    \/ ExecuteNothing(t)
    \/ FinishBlock(t)
    \/ CallReturn(t)
    \/ Unwind(t)
    \/ FinishInterpret(t)
    \/ FinishBranch(t)
    \/ ExecuteParallel(t)
    \/ ParallelExit(t)
    \/ \E i \in 1..MaxBranches : Collect(t, i)

Next == \E t \in 0..MaxBranches : Step(t)

Spec == Init /\ [][Next]_vars

----------------------------------------------------------------------------
(* EnvSpec: Environment objects under arbitrary define/get/assign calls *)

EnvNames == {"x", "y"}
EnvVals(n) == IF n = "x" THEN {IntV(1), IntV(2)} ELSE {IntV(1)}
IdleThreads ==
    [t \in 0..MaxBranches |-> [stack |-> <<>>, exc |-> NoExc, status |-> "idle"]]

EnvInit ==
    /\ envs = <<NewEnvironment(0)>>
    /\ insts = <<>>
    /\ environment = 1
    /\ threads = IdleThreads
    /\ output = <<>>
    /\ prog = <<>>
    /\ result = "running"
    /\ op = NoOp
    /\ cli = NoCli
    /\ front = NoFront

EnvFrame == UNCHANGED <<insts, environment, threads, output, prog, result, cli, front>>

\* Environment(enclosing) for any existing environment
EnvNew ==
    /\ Len(envs) < MaxEnvs
    /\ \E p \in 1..Len(envs) :
          /\ envs' = Append(envs, NewEnvironment(p))
          /\ op' = [kind |-> "new", env |-> Len(envs) + 1]
    /\ EnvFrame

EnvDefine ==
    /\ \E e \in 1..Len(envs), n \in EnvNames : \E v \in EnvVals(n) :
          /\ envs' = Environment_define(envs, e, n, v)
          /\ op' = [kind |-> "define", env |-> e, name |-> n, value |-> v]
    /\ EnvFrame

EnvGet ==
    /\ \E e \in 1..Len(envs), n \in EnvNames :
          /\ envs' = envs
          /\ op' = [kind |-> "get", env |-> e, name |-> n,
                    res |-> Environment_get(envs, e, n)]
    /\ EnvFrame

EnvAssign ==
    /\ \E e \in 1..Len(envs), n \in EnvNames : \E v \in EnvVals(n) :
          LET r == Environment_assign(envs, e, n, v) IN
          /\ envs' = r.envs
          /\ op' = [kind |-> "assign", env |-> e, name |-> n, value |-> v,
                    ok |-> r.ok]
    /\ EnvFrame

EnvNext == EnvNew \/ EnvDefine \/ EnvGet \/ EnvAssign

EnvSpec == EnvInit /\ [][EnvNext]_vars

\* the environments from e up to the root, nearest first
RECURSIVE Chain(_, _)
Chain(E, e) == IF e = 0 THEN <<>> ELSE <<e>> \o Chain(E, E[e].enclosing)

ChainSet(E, e) == LET c == Chain(E, e) IN {c[i] : i \in 1..Len(c)}

\* the environments of the chain of e that bind name
Binders(E, e, name) == {a \in ChainSet(E, e) : name \in DOMAIN E[a].values}

\* the nearest environment of the chain of e that binds name
Nearest(E, e, name) ==
    LET c == Chain(E, e)
        at == {i \in 1..Len(c) : name \in DOMAIN E[c[i]].values}
    IN c[CHOOSE i \in at : \A j \in at : i <= j]

----------------------------------------------------------------------------
(* MemoryManager and EnhancedEnvironment (src/memory_management.py) *)

MaxCalls == 4       \* calls made on the environments explored by MemSpec

\* del f[n]
MapDel(f, n) == [x \in (DOMAIN f) \ {n} |-> f[x]]

\* id(value): equal small ints are one object
IdOfValue(value) ==
    IF value.k = "int" THEN "int:" \o IntToStr(value.n) ELSE "str:" \o value.s
\* id(name); a value that is the name itself is the same object
IdOfName(name) == "str:" \o name

\* MemoryManager()
NewMemoryManager == [objects |-> EmptyMap, reference_counts |-> EmptyMap,
                     deleted_objects |-> {}]

\* a method of the manager has returned, or has raised exc, leaving mm
MOk(mm) == [ok |-> TRUE, exc |-> NoExc, mm |-> mm]
MRaise(mm, type, msg) == [ok |-> FALSE, exc |-> [type |-> type, msg |-> msg], mm |-> mm]

\* the count of value_id went up, or starts at 1
Referenced(mm, value_id) ==
    IF value_id \in DOMAIN mm.reference_counts
    THEN [mm EXCEPT !.reference_counts[value_id] = @ + 1]
    ELSE [mm EXCEPT !.reference_counts = MapPut(@, value_id, 1)]

\* MemoryManager.allocate
MemoryManager_allocate(mm, value) ==
    IF IdOfValue(value) \in DOMAIN mm.reference_counts
    THEN [mm EXCEPT !.reference_counts[IdOfValue(value)] = @ + 1]
    ELSE [mm EXCEPT !.objects = MapPut(@, IdOfValue(value), value),
                    !.reference_counts = MapPut(@, IdOfValue(value), 1)]

\* if self.reference_counts[value_id] == 0: del self.objects[value_id];
\* del self.reference_counts[value_id]
Collected(mm, value_id) ==
    IF mm.reference_counts[value_id] # 0 THEN MOk(mm)
    ELSE IF value_id \notin DOMAIN mm.objects THEN MRaise(mm, "KeyError", value_id)
    ELSE MOk([mm EXCEPT !.objects = MapDel(@, value_id),
                        !.reference_counts = MapDel(@, value_id)])

\* self.reference_counts[value_id] -= 1 and the collection that follows it
Released(mm, value_id) ==
    IF value_id \notin DOMAIN mm.reference_counts
    THEN MRaise(mm, "KeyError", value_id)
    ELSE Collected([mm EXCEPT !.reference_counts[value_id] = @ - 1], value_id)

\* MemoryManager.assign once the old value is released
MemoryManager_assign_store(r, var_id, value) ==
    IF ~r.ok THEN r
    ELSE MOk(Referenced([r.mm EXCEPT !.objects = MapPut(@, var_id, value)],
                        IdOfValue(value)))

\* MemoryManager.assign
MemoryManager_assign(mm, var_id, value) ==
    MemoryManager_assign_store(
        IF var_id \in DOMAIN mm.objects
        THEN Released(mm, IdOfValue(mm.objects[var_id]))
        ELSE MOk(mm),
        var_id, value)

\* MemoryManager.delete once the value is released: mark as deleted,
\* del self.objects[var_id]
MemoryManager_delete_mark(r, var_id) ==
    IF ~r.ok THEN r
    ELSE IF var_id \notin DOMAIN r.mm.objects
    THEN MRaise([r.mm EXCEPT !.deleted_objects = @ \cup {var_id}], "KeyError", var_id)
    ELSE MOk([r.mm EXCEPT !.deleted_objects = @ \cup {var_id},
                          !.objects = MapDel(@, var_id)])

\* MemoryManager.delete
MemoryManager_delete(mm, var_id) ==
    IF var_id \notin DOMAIN mm.objects
    THEN MRaise(mm, "RuntimeError", "Cannot delete non-existent variable.")
    ELSE MemoryManager_delete_mark(Released(mm, IdOfValue(mm.objects[var_id])), var_id)

\* MemoryManager.is_deleted
MemoryManager_is_deleted(mm, var_id) == var_id \in mm.deleted_objects

\* EnhancedEnvironment(enclosing)
NewEnhancedEnvironment(enclosing) ==
    [values |-> EmptyMap, enclosing |-> enclosing, memory_manager |-> NewMemoryManager]

\* a method of an environment has returned v, or has raised exc, leaving E
HOk(E, v) == [ok |-> TRUE, exc |-> NoExc, envs |-> E, v |-> v]
HRaise(E, exc) == [ok |-> FALSE, exc |-> exc, envs |-> E, v |-> Null]

\* EnhancedEnvironment.define
EnhancedEnvironment_define(E, e, name, value) ==
    [E EXCEPT ![e].values = MapPut(@, name, value),
              ![e].memory_manager = MemoryManager_allocate(@, value)]

\* the assign of an environment that holds the name, the manager having done r
EnhancedEnvironment_assign_here(E, e, name, value, r) ==
    IF ~r.ok THEN HRaise([E EXCEPT ![e].memory_manager = r.mm], r.exc)
    ELSE HOk([E EXCEPT ![e].memory_manager = r.mm, ![e].values[name] = value], Null)

\* EnhancedEnvironment.assign
RECURSIVE EnhancedEnvironment_assign(_, _, _, _)
EnhancedEnvironment_assign(E, e, name, value) ==
    IF name \in DOMAIN E[e].values
    THEN EnhancedEnvironment_assign_here(
             E, e, name, value,
             MemoryManager_assign(E[e].memory_manager, IdOfName(name), value))
    ELSE IF E[e].enclosing # 0
    THEN EnhancedEnvironment_assign(E, E[e].enclosing, name, value)
    ELSE HRaise(E, RuntimeError("Undefined variable '" \o name \o "'."))

\* the delete of an environment that holds the name, the manager having done r
EnhancedEnvironment_delete_here(E, e, name, r) ==
    IF ~r.ok THEN HRaise([E EXCEPT ![e].memory_manager = r.mm], r.exc)
    ELSE HOk([E EXCEPT ![e].memory_manager = r.mm, ![e].values = MapDel(@, name)], Null)

\* EnhancedEnvironment.delete
RECURSIVE EnhancedEnvironment_delete(_, _, _)
EnhancedEnvironment_delete(E, e, name) ==
    IF name \in DOMAIN E[e].values
    THEN EnhancedEnvironment_delete_here(
             E, e, name, MemoryManager_delete(E[e].memory_manager, IdOfName(name)))
    ELSE IF E[e].enclosing # 0
    THEN EnhancedEnvironment_delete(E, E[e].enclosing, name)
    ELSE HRaise(E, RuntimeError("Cannot delete undefined variable '" \o name \o "'."))

\* EnhancedEnvironment.get
RECURSIVE EnhancedEnvironment_get(_, _, _)
EnhancedEnvironment_get(E, e, name) ==
    IF name \in DOMAIN E[e].values
    THEN IF ~MemoryManager_is_deleted(E[e].memory_manager, IdOfName(name))
         THEN HOk(E, E[e].values[name])
         ELSE HRaise(E, RuntimeError("Access to deleted variable '" \o name \o "'."))
    ELSE IF E[e].enclosing # 0
    THEN EnhancedEnvironment_get(E, E[e].enclosing, name)
    ELSE HRaise(E, RuntimeError("Undefined variable '" \o name \o "'."))

(* MemSpec: an EnhancedEnvironment and one enclosed by it, under arbitrary
   define/assign/delete/get calls *)

MemNames == {"x", "y"}
\* 5, and the name x itself as a value
MemVals == {IntV(5), StrV("x")}

MemInit ==
    /\ envs = <<NewEnhancedEnvironment(0), NewEnhancedEnvironment(1)>>
    /\ insts = <<>>
    /\ environment = 1
    /\ threads = IdleThreads
    /\ output = <<>>
    /\ prog = <<>>
    /\ result = "running"
    /\ op = [kind |-> "none", calls |-> 0]
    /\ cli = NoCli
    /\ front = NoFront

\* the call op.calls + 1 has been made on environment e: what it was called
\* with, the environments before it and what it returned or raised
Called(kind, e, name, r) ==
    [kind |-> kind, env |-> e, name |-> name, before |-> envs, ok |-> r.ok,
     exc |-> r.exc, v |-> r.v, calls |-> op.calls + 1]

MemDefine ==
    /\ op.calls < MaxCalls
    /\ \E e \in 1..Len(envs), n \in MemNames, v \in MemVals :
          /\ envs' = EnhancedEnvironment_define(envs, e, n, v)
          /\ op' = Called("define", e, n, HOk(envs, Null))
    /\ EnvFrame

MemAssign ==
    /\ op.calls < MaxCalls
    /\ \E e \in 1..Len(envs), n \in MemNames, v \in MemVals :
          /\ envs' = EnhancedEnvironment_assign(envs, e, n, v).envs
          /\ op' = Called("assign", e, n, EnhancedEnvironment_assign(envs, e, n, v))
    /\ EnvFrame

MemDelete ==
    /\ op.calls < MaxCalls
    /\ \E e \in 1..Len(envs), n \in MemNames :
          /\ envs' = EnhancedEnvironment_delete(envs, e, n).envs
          /\ op' = Called("delete", e, n, EnhancedEnvironment_delete(envs, e, n))
    /\ EnvFrame

MemGet ==
    /\ op.calls < MaxCalls
    /\ \E e \in 1..Len(envs), n \in MemNames :
          /\ envs' = envs
          /\ op' = Called("get", e, n, EnhancedEnvironment_get(envs, e, n))
    /\ EnvFrame

MemNext == MemDefine \/ MemAssign \/ MemDelete \/ MemGet

MemSpec == MemInit /\ [][MemNext]_vars

----------------------------------------------------------------------------
(* class Lexer (src/lexical_analysis.py); a source is a sequence of characters *)

\* Token(token_type, lexeme, literal, line)
Token(token_type, lexeme, literal, line) ==
    [type |-> token_type, lexeme |-> lexeme, literal |-> literal, line |-> line]

\* Lexer.keywords
keywords ==
    [w \in {"let", "if", "else", "while", "for", "function", "return", "class",
            "new", "null", "parallel", "repeat", "times", "delete", "this",
            "print"} |->
       CASE w = "let" -> "LET" [] w = "if" -> "IF" [] w = "else" -> "ELSE"
         [] w = "while" -> "WHILE" [] w = "for" -> "FOR"
         [] w = "function" -> "FUNCTION" [] w = "return" -> "RETURN"
         [] w = "class" -> "CLASS" [] w = "new" -> "NEW" [] w = "null" -> "NULL"
         [] w = "parallel" -> "PARALLEL" [] w = "repeat" -> "REPEAT"
         [] w = "times" -> "TIMES" [] w = "delete" -> "DELETE"
         [] w = "this" -> "THIS" [] w = "print" -> "PRINT"]

\* the characters that are one token whatever follows them
SingleChar ==
    [c \in {"(", ")", "{", "}", "[", "]", ",", ".", ";", "+", "*", "%"} |->
       CASE c = "(" -> "LEFT_PAREN" [] c = ")" -> "RIGHT_PAREN"
         [] c = "{" -> "LEFT_BRACE" [] c = "}" -> "RIGHT_BRACE"
         [] c = "[" -> "LEFT_BRACKET" [] c = "]" -> "RIGHT_BRACKET"
         [] c = "," -> "COMMA" [] c = "." -> "DOT" [] c = ";" -> "SEMICOLON"
         [] c = "+" -> "PLUS" [] c = "*" -> "MULTIPLY" [] c = "%" -> "MODULO"]

\* c.isdigit() and c.isalpha() on the characters of the sources
\* the characters float() reads as digits
DecimalDigits == {"0", "1", "2", "3", "4", "5", "6", "7", "8", "9"}
\* the characters c for which c.isdigit(): the decimal digits, and digits that
\* are not decimal, as the superscript two
Digits == DecimalDigits \cup {"²"}
Letters ==
    {"a", "b", "c", "d", "e", "f", "g", "h", "i", "j", "k", "l", "m", "n", "o",
     "p", "q", "r", "s", "t", "u", "v", "w", "x", "y", "z",
     "A", "B", "C", "D", "E", "F", "G", "H", "I", "J", "K", "L", "M", "N", "O",
     "P", "Q", "R", "S", "T", "U", "V", "W", "X", "Y", "Z"}
\* Lexer.is_alpha, Lexer.is_alphanumeric
is_alpha(c) == c \in Letters \cup {"_"}
is_alphanumeric(c) == c \in Letters \cup Digits \cup {"_"}

DigitValue(c) == CHOOSE d \in 0..9 : Digit(d) = c

\* source[a:b] as a string (a and b count from 0, as self.start and self.current)
RECURSIVE Slice(_, _, _)
Slice(source, a, b) == IF a >= b THEN "" ELSE source[a + 1] \o Slice(source, a + 1, b)

\* Lexer.peek, Lexer.peek_next: "\0" past the end
peek(source, current) ==
    IF current >= Len(source) THEN "\\0" ELSE source[current + 1]
peek_next(source, current) ==
    IF current + 1 >= Len(source) THEN "\\0" ELSE source[current + 2]

\* while self.peek() is in S: self.advance()
RECURSIVE AdvanceWhile(_, _, _)
AdvanceWhile(source, current, S) ==
    IF current < Len(source) /\ source[current + 1] \in S
    THEN AdvanceWhile(source, current + 1, S)
    ELSE current

\* the loop of a comment: up to the end of the line
RECURSIVE AdvanceToEol(_, _)
AdvanceToEol(source, current) ==
    IF current < Len(source) /\ source[current + 1] # "\n"
    THEN AdvanceToEol(source, current + 1)
    ELSE current

\* the loop of Lexer.string: up to the closing quote, counting the lines
RECURSIVE AdvanceToQuote(_, _, _)
AdvanceToQuote(source, current, line) ==
    IF current < Len(source) /\ source[current + 1] # "\""
    THEN AdvanceToQuote(source, current + 1,
                        IF source[current + 1] = "\n" THEN line + 1 ELSE line)
    ELSE [current |-> current, line |-> line]

\* the value of the digits of source[a:b]
RECURSIVE DigitsValue(_, _, _)
DigitsValue(source, a, b) ==
    IF a >= b THEN 0
    ELSE DigitsValue(source, a, b - 1) * 10 + DigitValue(source[b])

RECURSIVE Pow10(_)
Pow10(n) == IF n = 0 THEN 1 ELSE 10 * Pow10(n - 1)

\* what one call of scan_token has done: where it stopped, the line, and the
\* token or the error it added, if any
Scanned(current, line, tokens, errors) ==
    [current |-> current, line |-> line, tokens |-> tokens, errors |-> errors,
     exc |-> NoExc]
\* a call of scan_token that an exception has left
ScanRaised(current, line, exc) ==
    [current |-> current, line |-> line, tokens |-> <<>>, errors |-> <<>>,
     exc |-> exc]

\* a string whose token keeps the value, without the quotes, as its lexeme
string_unquoted(source, start, current, line) ==
    LET q == AdvanceToQuote(source, current, line) IN
    IF q.current >= Len(source)
    THEN Scanned(q.current, q.line, <<>>,
                 <<"Unterminated string @ line " \o IntToStr(q.line)>>)
    ELSE Scanned(q.current + 1, q.line,
                 <<Token("STRING", Slice(source, start + 1, q.current),
                         StrV(Slice(source, start + 1, q.current)), q.line)>>,
                 <<>>)

\* Lexer.string, called after the opening quote
string(source, start, current, line) ==
    LET q == AdvanceToQuote(source, current, line) IN
    IF q.current >= Len(source)
    THEN Scanned(q.current, q.line, <<>>,
                 <<"Unterminated string @ line " \o IntToStr(q.line)>>)
    ELSE Scanned(q.current + 1, q.line,
                 <<Token("STRING", Slice(source, start, q.current + 1),
                         StrV(Slice(source, start + 1, q.current)), q.line)>>,
                 <<>>)

\* Lexer.number, called after the first digit
number(source, start, current, line) ==
    LET whole == AdvanceWhile(source, current, Digits)
        fraction == peek(source, whole) = "." /\ peek_next(source, whole) \in Digits
        end == IF fraction THEN AdvanceWhile(source, whole + 1, Digits) ELSE whole
        \* float(text), stored as an int when value.is_integer()
        value == IF fraction
                 THEN FloatV(DigitsValue(source, start, whole) * Pow10(end - whole - 1)
                                + DigitsValue(source, whole + 1, end),
                             Pow10(end - whole - 1))
                 ELSE FloatV(DigitsValue(source, start, whole), 1)
        literal == IF value.den = 1 THEN IntV(value.num) ELSE value
    IN IF \E i \in (start + 1)..end : source[i] \notin DecimalDigits \cup {"."}
       \* float(text) raises
       THEN ScanRaised(end, line,
                       [type |-> "ValueError",
                        msg |-> "could not convert string to float: '"
                                \o Slice(source, start, end) \o "'"])
       ELSE Scanned(end, line,
                    <<Token("NUMBER", Slice(source, start, end), literal, line)>>, <<>>)

\* Lexer.identifier, called after the first character
identifier(source, start, current, line) ==
    LET end == AdvanceWhile(source, current, Letters \cup Digits \cup {"_"})
        text == Slice(source, start, end)
        token_type == IF text \in DOMAIN keywords THEN keywords[text] ELSE "IDENTIFIER"
    IN Scanned(end, line, <<Token(token_type, text, Null, line)>>, <<>>)

\* Lexer.scan_token with self.start = self.current = start
scan_token(source, start, line) ==
    LET c == source[start + 1]
        current == start + 1
        next == peek(source, current)
        one(type) == Scanned(current, line, <<Token(type, c, Null, line)>>, <<>>)
        two(type) == Scanned(current + 1, line, <<Token(type, c \o next, Null, line)>>, <<>>)
    IN CASE c \in {" ", "\r", "\t"} -> Scanned(current, line, <<>>, <<>>)
         [] c = "\n" -> Scanned(current, line + 1, <<>>, <<>>)
         [] c = "/" -> IF next = "/"
                       THEN Scanned(AdvanceToEol(source, current + 1), line, <<>>, <<>>)
                       ELSE one("DIVIDE")
         [] c \in DOMAIN SingleChar -> one(SingleChar[c])
         [] c = "-" -> IF next = ">" THEN two("ARROW") ELSE one("MINUS")
         [] c = "=" -> IF next = "=" THEN two("EQUAL")
                       ELSE IF next = ">" THEN two("ARROW")
                       ELSE one("ASSIGN")
         [] c = "!" -> IF next = "=" THEN two("NOT_EQUAL") ELSE one("NOT")
         [] c = "<" -> IF next = "=" THEN two("LESS_EQUAL") ELSE one("LESS")
         [] c = ">" -> IF next = "=" THEN two("GREATER_EQUAL") ELSE one("GREATER")
         [] c = "\"" -> string(source, start, current, line)
         [] c \in Digits -> number(source, start, current, line)
         [] is_alpha(c) -> identifier(source, start, current, line)
         [] OTHER -> Scanned(current, line, <<>>,
                             <<"Invalid token '" \o c \o "' @ line " \o IntToStr(line)>>)

\* the while loop of scan_tokens and the EOF token after it
RECURSIVE ScanFrom(_, _, _, _, _)
\* t is what scan_token did
ScanNext(source, tokens, errors, t) ==
    IF t.exc # NoExc
    THEN [tokens |-> tokens, errors |-> errors, exc |-> t.exc]
    ELSE ScanFrom(source, t.current, t.line, tokens \o t.tokens, errors \o t.errors)

ScanFrom(source, current, line, tokens, errors) ==
    IF current >= Len(source)
    THEN [tokens |-> Append(tokens, Token("EOF", "", Null, line)), errors |-> errors,
          exc |-> NoExc]
    ELSE ScanNext(source, tokens, errors, scan_token(source, current, line))

\* Lexer.scan_tokens: the tokens and the errors of a source, or the exception
\* that left it
scan_tokens(source) == ScanFrom(source, 0, 1, <<>>, <<>>)

----------------------------------------------------------------------------
(* Parser *)

If(condition, then_branch, else_branch) ==
    [cls |-> "If", condition |-> condition, then_branch |-> then_branch,
     else_branch |-> else_branch]
While(condition, body) == [cls |-> "While", condition |-> condition, body |-> body]

\* what a parsing method leaves: the node it returns (or the parts of it parsed
\* so far), self.current and self.errors.  A name token is kept as its lexeme,
\* the only field of it the interpreter reads.
Parsed(node, current, errors) ==
    [ok |-> TRUE, node |-> node, current |-> current, errors |-> errors]
\* a raised ParseError(msg)
ParseError(msg, current, errors) ==
    [ok |-> FALSE, msg |-> msg, current |-> current, errors |-> errors]

Parser_peek(tokens, current) == tokens[current + 1]
Parser_previous(tokens, current) == tokens[current]
Parser_is_at_end(tokens, current) == Parser_peek(tokens, current).type = "EOF"
Parser_check(tokens, current, type) ==
    ~Parser_is_at_end(tokens, current) /\ Parser_peek(tokens, current).type = type
check_next(tokens, current, type) ==
    IF Parser_is_at_end(tokens, current) \/ current + 1 >= Len(tokens) THEN FALSE
    ELSE tokens[current + 2].type = type
Parser_advance(tokens, current) ==
    IF ~Parser_is_at_end(tokens, current) THEN current + 1 ELSE current
\* match(*types), which advances by one token when it returns True
Parser_match(tokens, current, types) ==
    \E type \in types : Parser_check(tokens, current, type)

\* the text of Parser.error
error_msg(token, message) ==
    IF token.type = "EOF" THEN "Error at end: " \o message
    ELSE "Error at '" \o token.lexeme \o "': " \o message
\* self.error(token, message) where the ParseError it returns is dropped
error(token, message, r) ==
    Parsed(r.node, r.current, Append(r.errors, error_msg(token, message)))
\* raise self.error(token, message)
raise_error(token, message, current, errors) ==
    ParseError(error_msg(token, message), current,
               Append(errors, error_msg(token, message)))
\* consume(type, message)
consume(tokens, current, errors, type, message) ==
    IF Parser_check(tokens, current, type)
    THEN Parsed(Parser_peek(tokens, current), current + 1, errors)
    ELSE raise_error(Parser_peek(tokens, current), message, current, errors)

\* a method that has parsed nothing yet
Parts(current, errors) == Parsed(<<>>, current, errors)
\* after r, a consume whose token is not used
Skip(tokens, r, type, message) ==
    IF ~r.ok THEN r
    ELSE IF Parser_check(tokens, r.current, type)
    THEN Parsed(r.node, r.current + 1, r.errors)
    ELSE raise_error(Parser_peek(tokens, r.current), message, r.current, r.errors)
\* after r, a consume whose token is the next part
Take(tokens, r, type, message) ==
    IF ~r.ok THEN r
    ELSE IF Parser_check(tokens, r.current, type)
    THEN Parsed(Append(r.node, Parser_peek(tokens, r.current).lexeme),
                r.current + 1, r.errors)
    ELSE raise_error(Parser_peek(tokens, r.current), message, r.current, r.errors)
\* x, parsed after r, is the next part
Push(r, x) == IF ~x.ok THEN x ELSE Parsed(Append(r.node, x.node), x.current, x.errors)
\* return Node(...) of what was parsed
Build(r, Node(_)) == IF ~r.ok THEN r ELSE Parsed(Node(r.node), r.current, r.errors)

\* the limit on parameters and arguments
MaxArguments == 255
\* if len(...) >= 255: self.error(self.peek(), message)
Limit(tokens, r, limited, message) ==
    IF limited /\ Len(r.node) >= MaxArguments
    THEN error(Parser_peek(tokens, r.current), message, r)
    ELSE r

RECURSIVE expression(_, _, _)
RECURSIVE assignment(_, _, _)
RECURSIVE unary(_, _, _)
RECURSIVE binary_loop(_, _, _)
RECURSIVE call_loop(_, _)
RECURSIVE arguments_loop(_, _, _)
RECURSIVE parameters_loop(_, _, _)
RECURSIVE statement(_, _, _)
RECURSIVE declaration(_, _, _)
RECURSIVE block_loop(_, _)
RECURSIVE methods_loop(_, _)

ThenExpression(tokens, r) ==
    IF ~r.ok THEN r ELSE Push(r, expression(tokens, r.current, r.errors))

\* the parameter list of function_declaration (limited) and of lambda_expr
parameters_loop(tokens, r, limited) ==
    IF ~r.ok THEN r
    ELSE IF Parser_match(tokens, r.current, {"COMMA"})
    THEN parameters_loop(
             tokens,
             Take(tokens,
                  Limit(tokens, Parsed(r.node, r.current + 1, r.errors), limited,
                        "Can't have more than 255 parameters."),
                  "IDENTIFIER", "Expect parameter name."),
             limited)
    ELSE r

parameters(tokens, current, errors, limited) ==
    IF Parser_check(tokens, current, "RIGHT_PAREN") THEN Parts(current, errors)
    ELSE parameters_loop(tokens,
                         Take(tokens, Parts(current, errors), "IDENTIFIER",
                              "Expect parameter name."),
                         limited)

ThenParameters(tokens, r, limited) ==
    IF ~r.ok THEN r ELSE Push(r, parameters(tokens, r.current, r.errors, limited))

\* the argument list of finish_call (limited) and of new_expression
arguments_loop(tokens, r, limited) ==
    IF ~r.ok THEN r
    ELSE IF Parser_match(tokens, r.current, {"COMMA"})
    THEN arguments_loop(
             tokens,
             ThenExpression(tokens,
                            Limit(tokens, Parsed(r.node, r.current + 1, r.errors),
                                  limited, "Can't have more than 255 arguments.")),
             limited)
    ELSE r

arguments(tokens, current, errors, limited) ==
    IF Parser_check(tokens, current, "RIGHT_PAREN") THEN Parts(current, errors)
    ELSE arguments_loop(tokens, ThenExpression(tokens, Parts(current, errors)), limited)

ThenArguments(tokens, r, limited) ==
    IF ~r.ok THEN r ELSE Push(r, arguments(tokens, r.current, r.errors, limited))

new_expression(tokens, current, errors) ==
    Build(Skip(tokens,
               ThenArguments(tokens,
                             Skip(tokens,
                                  Take(tokens, Parts(current, errors), "IDENTIFIER",
                                       "Expect class name after 'new'."),
                                  "LEFT_PAREN", "Expect '(' after class name."),
                             FALSE),
               "RIGHT_PAREN", "Expect ')' after arguments."),
          LAMBDA p : Call(Variable(p[1]), p[2]))

primary(tokens, current, errors) ==
    CASE Parser_match(tokens, current, {"NUMBER", "STRING"}) ->
            Parsed(Literal(Parser_peek(tokens, current).literal), current + 1, errors)
      [] Parser_match(tokens, current, {"IDENTIFIER"}) ->
            Parsed(Variable(Parser_peek(tokens, current).lexeme), current + 1, errors)
      [] Parser_match(tokens, current, {"LEFT_PAREN"}) ->
            Skip(tokens, expression(tokens, current + 1, errors),
                 "RIGHT_PAREN", "Expect ')' after expression.")
      [] Parser_match(tokens, current, {"NEW"}) ->
            new_expression(tokens, current + 1, errors)
      [] Parser_match(tokens, current, {"NULL"}) ->
            Parsed(Literal(Null), current + 1, errors)
      [] Parser_match(tokens, current, {"THIS"}) ->
            Parsed(Variable(Parser_peek(tokens, current).lexeme), current + 1, errors)
      [] OTHER ->
            raise_error(Parser_peek(tokens, current), "Expect expression.",
                        current, errors)

finish_call(tokens, callee, current, errors) ==
    Build(Skip(tokens, ThenArguments(tokens, Parts(current, errors), TRUE),
               "RIGHT_PAREN", "Expect ')' after arguments."),
          LAMBDA p : Call(callee, p[1]))

\* the while True of call
call_loop(tokens, expr) ==
    IF ~expr.ok THEN expr
    ELSE IF Parser_match(tokens, expr.current, {"LEFT_PAREN"})
    THEN call_loop(tokens,
                   finish_call(tokens, expr.node, expr.current + 1, expr.errors))
    ELSE IF Parser_match(tokens, expr.current, {"DOT"})
    THEN call_loop(tokens,
                   Build(consume(tokens, expr.current + 1, expr.errors, "IDENTIFIER",
                                 "Expect property name after '.'."),
                         LAMBDA name : Get(expr.node, name.lexeme)))
    ELSE expr

call(tokens, current, errors) == call_loop(tokens, primary(tokens, current, errors))

unary(tokens, current, errors) ==
    IF Parser_match(tokens, current, {"MINUS", "NOT"})
    THEN Build(unary(tokens, current + 1, errors),
               LAMBDA right : Unary(Parser_peek(tokens, current).lexeme, right))
    ELSE call(tokens, current, errors)

\* the token types that equality, comparison, term and factor match
Operators(level) ==
    CASE level = "equality" -> {"EQUAL", "NOT_EQUAL"}
      [] level = "comparison" -> {"GREATER", "GREATER_EQUAL", "LESS", "LESS_EQUAL"}
      [] level = "term" -> {"PLUS", "MINUS"}
      [] level = "factor" -> {"MULTIPLY", "DIVIDE", "MODULO"}

factor(tokens, current, errors) ==
    binary_loop("factor", tokens, unary(tokens, current, errors))
term(tokens, current, errors) ==
    binary_loop("term", tokens, factor(tokens, current, errors))
comparison(tokens, current, errors) ==
    binary_loop("comparison", tokens, term(tokens, current, errors))
equality(tokens, current, errors) ==
    binary_loop("equality", tokens, comparison(tokens, current, errors))

\* four levels that all take unary expressions for their operands
operand_unary(level, tokens, current, errors) == unary(tokens, current, errors)

\* the method each of the four calls for its operands
operand(level, tokens, current, errors) ==
    CASE level = "equality" -> comparison(tokens, current, errors)
      [] level = "comparison" -> term(tokens, current, errors)
      [] level = "term" -> factor(tokens, current, errors)
      [] level = "factor" -> unary(tokens, current, errors)

\* the while loop of equality, comparison, term and factor
binary_loop(level, tokens, expr) ==
    IF ~expr.ok THEN expr
    ELSE IF Parser_match(tokens, expr.current, Operators(level))
    THEN binary_loop(
             level, tokens,
             Build(operand(level, tokens, expr.current + 1, expr.errors),
                   LAMBDA right : Binary(expr.node,
                                         Parser_peek(tokens, expr.current).lexeme,
                                         right)))
    ELSE expr

\* assignment once the value is parsed
assignment_target(expr, equals, value) ==
    IF ~value.ok THEN value
    ELSE IF expr.cls = "Variable"
    THEN Parsed(Assign(expr.name, value.node), value.current, value.errors)
    ELSE IF expr.cls = "Get"
    THEN Parsed(Set(expr.object, expr.name, value.node), value.current, value.errors)
    ELSE error(equals, "Invalid assignment target.",
               Parsed(expr, value.current, value.errors))

\* assignment once its left side is parsed
assignment_value(tokens, expr) ==
    IF ~expr.ok THEN expr
    ELSE IF Parser_match(tokens, expr.current, {"ASSIGN"})
    THEN assignment_target(expr.node, Parser_peek(tokens, expr.current),
                           assignment(tokens, expr.current + 1, expr.errors))
    ELSE expr

assignment(tokens, current, errors) ==
    assignment_value(tokens, equality(tokens, current, errors))

lambda_expr(tokens, current, errors) ==
    Build(ThenExpression(
              tokens,
              Skip(tokens,
                   Skip(tokens,
                        ThenParameters(tokens,
                                       Skip(tokens, Parts(current, errors), "LEFT_PAREN",
                                            "Expect '(' for lambda parameters."),
                                       FALSE),
                        "RIGHT_PAREN", "Expect ')' after lambda parameters."),
                   "ARROW", "Expect '=>' after lambda parameters.")),
          LAMBDA p : Lambda(p[1], p[2]))

expression(tokens, current, errors) ==
    IF Parser_check(tokens, current, "LEFT_PAREN")
       /\ check_next(tokens, current, "IDENTIFIER")
    THEN lambda_expr(tokens, current, errors)
    ELSE assignment(tokens, current, errors)

ThenStatement(tokens, r) ==
    IF ~r.ok THEN r ELSE Push(r, statement(tokens, r.current, r.errors))

\* the while loop of block
block_loop(tokens, r) ==
    IF ~r.ok THEN r
    ELSE IF ~Parser_check(tokens, r.current, "RIGHT_BRACE")
            /\ ~Parser_is_at_end(tokens, r.current)
    THEN block_loop(tokens, Push(r, declaration(tokens, r.current, r.errors)))
    ELSE r

block(tokens, current, errors) ==
    Skip(tokens, block_loop(tokens, Parts(current, errors)),
         "RIGHT_BRACE", "Expect '}' after block.")

ThenBlock(tokens, r) ==
    IF ~r.ok THEN r ELSE Push(r, block(tokens, r.current, r.errors))

print_statement(tokens, current, errors) ==
    Build(Skip(tokens, expression(tokens, current, errors),
               "SEMICOLON", "Expect ';' after value."),
          PrintStmt)

\* if self.match(ELSE): else_branch = self.statement()
ThenElse(tokens, r) ==
    IF ~r.ok THEN r
    ELSE IF Parser_match(tokens, r.current, {"ELSE"})
    THEN Push(r, statement(tokens, r.current + 1, r.errors))
    ELSE Parsed(Append(r.node, NoExpr), r.current, r.errors)

if_statement(tokens, current, errors) ==
    Build(ThenElse(
              tokens,
              ThenStatement(
                  tokens,
                  Skip(tokens,
                       ThenExpression(tokens,
                                      Skip(tokens, Parts(current, errors), "LEFT_PAREN",
                                           "Expect '(' after 'if'.")),
                       "RIGHT_PAREN", "Expect ')' after if condition."))),
          LAMBDA p : If(p[1], p[2], p[3]))

while_statement(tokens, current, errors) ==
    Build(ThenStatement(
              tokens,
              Skip(tokens,
                   ThenExpression(tokens,
                                  Skip(tokens, Parts(current, errors), "LEFT_PAREN",
                                       "Expect '(' after 'while'.")),
                   "RIGHT_PAREN", "Expect ')' after condition.")),
          LAMBDA p : While(p[1], p[2]))

return_statement(tokens, current, errors) ==
    Build(Skip(tokens,
               IF ~Parser_check(tokens, current, "SEMICOLON")
               THEN expression(tokens, current, errors)
               ELSE Parsed(NoExpr, current, errors),
               "SEMICOLON", "Expect ';' after return value."),
          ReturnStmt)

parallel_statement(tokens, current, errors) ==
    Build(ThenBlock(tokens,
                    Skip(tokens, Parts(current, errors), "LEFT_BRACE",
                         "Expect '{' after 'parallel'.")),
          LAMBDA p : Parallel(p[1]))

repeat_statement(tokens, current, errors) ==
    Build(ThenBlock(
              tokens,
              Skip(tokens,
                   Skip(tokens, ThenExpression(tokens, Parts(current, errors)),
                        "TIMES", "Expect 'times' after repeat count."),
                   "LEFT_BRACE", "Expect '{' after 'times'.")),
          LAMBDA p : Repeat(p[1], p[2]))

delete_statement(tokens, current, errors) ==
    Build(Skip(tokens,
               Skip(tokens,
                    ThenExpression(tokens,
                                   Skip(tokens, Parts(current, errors), "LEFT_PAREN",
                                        "Expect '(' after 'delete'.")),
                    "RIGHT_PAREN", "Expect ')' after expression."),
               "SEMICOLON", "Expect ';' after delete statement."),
          LAMBDA p : Delete(p[1]))

expression_statement(tokens, current, errors) ==
    Build(Skip(tokens, expression(tokens, current, errors),
               "SEMICOLON", "Expect ';' after expression."),
          Expression)

statement(tokens, current, errors) ==
    CASE Parser_match(tokens, current, {"PRINT"}) ->
            print_statement(tokens, current + 1, errors)
      [] Parser_match(tokens, current, {"LEFT_BRACE"}) ->
            Build(block(tokens, current + 1, errors), Block)
      [] Parser_match(tokens, current, {"IF"}) ->
            if_statement(tokens, current + 1, errors)
      [] Parser_match(tokens, current, {"WHILE"}) ->
            while_statement(tokens, current + 1, errors)
      [] Parser_match(tokens, current, {"RETURN"}) ->
            return_statement(tokens, current + 1, errors)
      [] Parser_match(tokens, current, {"PARALLEL"}) ->
            parallel_statement(tokens, current + 1, errors)
      [] Parser_match(tokens, current, {"REPEAT"}) ->
            repeat_statement(tokens, current + 1, errors)
      [] Parser_match(tokens, current, {"DELETE"}) ->
            delete_statement(tokens, current + 1, errors)
      [] OTHER -> expression_statement(tokens, current, errors)

\* if self.match(ASSIGN): initializer = self.expression()
ThenInitializer(tokens, r) ==
    IF ~r.ok THEN r
    ELSE IF Parser_match(tokens, r.current, {"ASSIGN"})
    THEN Push(r, expression(tokens, r.current + 1, r.errors))
    ELSE Parsed(Append(r.node, NoExpr), r.current, r.errors)

let_declaration(tokens, current, errors) ==
    Build(Skip(tokens,
               ThenInitializer(tokens,
                               Take(tokens, Parts(current, errors), "IDENTIFIER",
                                    "Expect variable name.")),
               "SEMICOLON", "Expect ';' after variable declaration."),
          LAMBDA p : Let(p[1], p[2]))

function_declaration(tokens, current, errors, kind) ==
    Build(ThenBlock(
              tokens,
              Skip(tokens,
                   Skip(tokens,
                        ThenParameters(
                            tokens,
                            Skip(tokens,
                                 Take(tokens, Parts(current, errors), "IDENTIFIER",
                                      "Expect " \o kind \o " name."),
                                 "LEFT_PAREN", "Expect '(' after " \o kind \o " name."),
                            TRUE),
                        "RIGHT_PAREN", "Expect ')' after parameters."),
                   "LEFT_BRACE", "Expect '{' before " \o kind \o " body.")),
          LAMBDA p : Function(p[1], p[2], p[3]))

\* the while loop of class_declaration
methods_loop(tokens, r) ==
    IF ~r.ok THEN r
    ELSE IF ~Parser_check(tokens, r.current, "RIGHT_BRACE")
            /\ ~Parser_is_at_end(tokens, r.current)
    THEN methods_loop(tokens,
                      Push(r, function_declaration(tokens, r.current, r.errors,
                                                   "method")))
    ELSE r

ThenMethods(tokens, r) ==
    IF ~r.ok THEN r ELSE Push(r, methods_loop(tokens, Parts(r.current, r.errors)))

class_declaration(tokens, current, errors) ==
    Build(Skip(tokens,
               ThenMethods(tokens,
                           Skip(tokens,
                                Take(tokens, Parts(current, errors), "IDENTIFIER",
                                     "Expect class name."),
                                "LEFT_BRACE", "Expect '{' before class body.")),
               "RIGHT_BRACE", "Expect '}' after class body."),
          LAMBDA p : Class(p[1], p[2]))

declaration(tokens, current, errors) ==
    CASE Parser_match(tokens, current, {"LET"}) ->
            let_declaration(tokens, current + 1, errors)
      [] Parser_match(tokens, current, {"FUNCTION"}) ->
            function_declaration(tokens, current + 1, errors, "function")
      [] Parser_match(tokens, current, {"CLASS"}) ->
            class_declaration(tokens, current + 1, errors)
      [] OTHER -> statement(tokens, current, errors)

\* the while loop of synchronize
RECURSIVE synchronize_loop(_, _)
synchronize_loop(tokens, current) ==
    IF Parser_is_at_end(tokens, current) THEN current
    ELSE IF Parser_previous(tokens, current).type = "SEMICOLON" THEN current
    ELSE IF Parser_peek(tokens, current).type \in
               {"CLASS", "FUNCTION", "LET", "FOR", "IF", "WHILE", "PRINT", "RETURN"}
    THEN current
    ELSE synchronize_loop(tokens, Parser_advance(tokens, current))

\* a synchronize that stops behind a ; only
RECURSIVE synchronize_to_semicolon_loop(_, _)
synchronize_to_semicolon_loop(tokens, current) ==
    IF Parser_is_at_end(tokens, current) THEN current
    ELSE IF Parser_previous(tokens, current).type = "SEMICOLON" THEN current
    ELSE synchronize_to_semicolon_loop(tokens, Parser_advance(tokens, current))
synchronize_to_semicolon(tokens, current) ==
    synchronize_to_semicolon_loop(tokens, Parser_advance(tokens, current))

\* Parser.synchronize
synchronize(tokens, current) ==
    synchronize_loop(tokens, Parser_advance(tokens, current))

\* the while loop of parse; d is what self.declaration() did
RECURSIVE parse_loop(_, _, _, _)
parse_declared(tokens, statements, d) ==
    IF d.ok THEN parse_loop(tokens, Append(statements, d.node), d.current, d.errors)
    \* except ParseError as error: self.errors.append(str(error))
    ELSE parse_loop(tokens, statements, synchronize(tokens, d.current),
                    Append(d.errors, d.msg))

parse_loop(tokens, statements, current, errors) ==
    IF Parser_is_at_end(tokens, current)
    THEN [statements |-> statements, errors |-> errors]
    ELSE parse_declared(tokens, statements, declaration(tokens, current, errors))

\* Parser.parse: the statements and the errors of a token list
parse(tokens) == parse_loop(tokens, <<>>, 0, <<>>)

----------------------------------------------------------------------------
(* ToyLanguageCLI: run and run_repl *)

MaxLines == 3       \* lines read by the REPL

\* let x = 1;
LetLine ==
    <<"l","e","t"," ","x"," ","="," ","1",";">>
\* x = x + 1;
IncrementLine ==
    <<"x"," ","="," ","x"," ","+"," ","1",";">>
\* print x;
PrintLine ==
    <<"p","r","i","n","t"," ","x",";">>
\* let x = 5; print 7; y = 1; print 8;
AbortLine ==
    <<"l","e","t"," ","x"," ","="," ","5",";"," ","p","r","i","n","t"," ","7",";"," ","y"," ","="," ","1",";"," ","p","r","i","n","t"," ","8",";">>
\* function f() { print x; }
FunctionLine ==
    <<"f","u","n","c","t","i","o","n"," ","f","(",")"," ","{"," ","p","r","i","n","t"," ","x",";"," ","}">>
\* f();
CallLine ==
    <<"f","(",")",";">>
\* class A { }
ClassLine ==
    <<"c","l","a","s","s"," ","A"," ","{"," ","}">>
\* print A;
PrintClassLine ==
    <<"p","r","i","n","t"," ","A",";">>
\* print 1; @
LexicalLine ==
    <<"p","r","i","n","t"," ","1",";"," ","@">>
\* print 1; let x = ;
SyntaxLine ==
    <<"p","r","i","n","t"," ","1",";"," ","l","e","t"," ","x"," ","="," ",";">>
\* print ²;
DigitLine ==
    <<"p","r","i","n","t"," ","²",";">>
\*  exit
ExitLine ==
    <<" ","e","x","i","t">>
\* help 
HelpLine ==
    <<"h","e","l","p"," ">>

\* the lines typed at the prompt
Sources ==
    {LetLine, IncrementLine, PrintLine, AbortLine, FunctionLine, CallLine,
     ClassLine, PrintClassLine, LexicalLine, SyntaxLine, DigitLine, ExitLine,
     HelpLine}

\* str.strip()
Whitespace == {" ", "\t", "\n", "\r", "\f"}
RECURSIVE lstrip(_)
lstrip(line) ==
    IF line # <<>> /\ Head(line) \in Whitespace THEN lstrip(Tail(line)) ELSE line
RECURSIVE rstrip(_)
rstrip(line) ==
    IF line # <<>> /\ line[Len(line)] \in Whitespace
    THEN rstrip(SubSeq(line, 1, Len(line) - 1))
    ELSE line
strip(line) == rstrip(lstrip(line))

\* what print_help prints
print_help ==
    <<"Toy Language Help:",
      "  - Type any valid Toy language code to execute it",
      "  - Type 'exit' or 'quit' to exit the REPL",
      "  - Type 'help' to display this help message",
      "", "Example commands:",
      "  let x = 10;",
      "  print(x + 5);",
      "  if (x > 5) { print(\"x is greater than 5\"); }">>

\* a line the REPL is done with: whether run was called for it and what it
\* returned, what interpret returned, what was printed meanwhile and the
\* heaps it left
Line(source, called, code, success, out, E, I) ==
    [source |-> source, called |-> called, code |-> code, success |-> success,
     out |-> out, envs |-> E, insts |-> I]

\* print("Lexical errors:") or print("Syntax errors:"), then each error
Diagnostics(header, errors) ==
    <<header>> \o [i \in 1..Len(errors) |-> "  " \o errors[i]]

\* run up to return 65
run_diagnosed(source, header, errors) ==
    /\ output' = output \o Diagnostics(header, errors)
    /\ cli' = [cli EXCEPT !.history =
                  Append(@, Line(source, TRUE, 65, "none", Diagnostics(header, errors),
                                 envs, insts))]
    /\ UNCHANGED <<envs, insts, environment, threads, prog, result, op, front>>

\* an interpreter made anew for the statement list
interpret_fresh(source, statements) ==
    /\ prog' = statements
    /\ threads' = [IdleThreads EXCEPT
                      ![0] = [stack |-> <<StmtsFrame("interpret", statements, 0, 0)>>,
                              exc |-> NoExc, status |-> "running"]]
    /\ result' = "running"
    /\ cli' = [cli EXCEPT !.phase = "run", !.source = source, !.mark = Len(output)]
    /\ envs' = <<NewEnvironment(0)>>
    /\ insts' = <<>>
    /\ environment' = 1
    /\ UNCHANGED <<output, op, front>>

\* self.interpreter.interpret(statements) up to its for loop
interpret(source, statements) ==
    /\ prog' = statements
    /\ threads' = [IdleThreads EXCEPT
                      ![0] = [stack |-> <<StmtsFrame("interpret", statements, 0, 0)>>,
                              exc |-> NoExc, status |-> "running"]]
    /\ result' = "running"
    /\ cli' = [cli EXCEPT !.phase = "run", !.source = source, !.mark = Len(output)]
    /\ envs' = envs
    /\ insts' = insts
    /\ environment' = environment
    /\ UNCHANGED <<output, op, front>>

\* run once the tokens are parsed
run_parsed(source, parsed) ==
    IF parsed.errors # <<>>
    THEN run_diagnosed(source, "Syntax errors:", parsed.errors)
    ELSE interpret(source, parsed.statements)

\* an exception leaves run, and run_repl, which catches none but
\* KeyboardInterrupt and EOFError
run_raised(source, exc) ==
    /\ cli' = [cli EXCEPT !.phase = "crashed", !.source = source]
    /\ UNCHANGED <<envs, insts, environment, threads, output, prog, result, op, front>>

\* run once the source is scanned
run_lexed(source, lexed) ==
    IF lexed.exc # NoExc THEN run_raised(source, lexed.exc)
    ELSE IF lexed.errors # <<>>
    THEN run_diagnosed(source, "Lexical errors:", lexed.errors)
    ELSE run_parsed(source, parse(lexed.tokens))

\* ToyLanguageCLI.run up to the call of interpret
run(source) == run_lexed(source, scan_tokens(source))

\* if not success: return 70; return 0
run_code(success) == IF ~success THEN 70 ELSE 0

CliInit ==
    /\ envs = <<NewEnvironment(0)>>
    /\ insts = <<>>
    /\ environment = 1
    /\ threads = IdleThreads
    /\ output = <<"Toy Language REPL (Interactive Mode)",
                  "Type 'exit' or 'quit' to exit, 'help' for help.">>
    /\ prog = <<>>
    /\ result = "running"
    /\ op = NoOp
    /\ cli = [phase |-> "input", history |-> <<>>, source |-> <<>>, mark |-> 0]
    /\ front = NoFront

\* run_repl: line = input("> ") and what the loop does with it
ReadLine ==
    /\ cli.phase = "input"
    /\ Len(cli.history) < MaxLines
    /\ \E line \in Sources :
          IF strip(line) \in {<<"e", "x", "i", "t">>, <<"q", "u", "i", "t">>}
          THEN /\ cli' = [cli EXCEPT !.phase = "exited",
                                     !.history = Append(@, Line(line, FALSE, 0, "none",
                                                                <<>>, envs, insts))]
               /\ UNCHANGED <<envs, insts, environment, threads, output, prog,
                              result, op, front>>
          ELSE IF strip(line) = <<"h", "e", "l", "p">>
          THEN /\ output' = output \o print_help
               /\ cli' = [cli EXCEPT !.history = Append(@, Line(line, FALSE, 0, "none",
                                                                print_help, envs, insts))]
               /\ UNCHANGED <<envs, insts, environment, threads, prog, result, op, front>>
          ELSE run(line)

\* input raises EOFError or KeyboardInterrupt
EndOfInput ==
    /\ cli.phase = "input"
    /\ output' = output \o <<"", "Exiting REPL.">>
    /\ cli' = [cli EXCEPT !.phase = "exited"]
    /\ UNCHANGED <<envs, insts, environment, threads, prog, result, op, front>>

\* interpret has returned: run returns its code and the loop goes on; an
\* exception that interpret does not catch leaves run and run_repl
RunReturn ==
    /\ cli.phase = "run"
    /\ threads[0].status = "done"
    /\ cli' = IF result = "exception" THEN [cli EXCEPT !.phase = "crashed"]
              ELSE [cli EXCEPT !.phase = "input",
                               !.history =
                                   Append(@, Line(cli.source, TRUE,
                                                  run_code(result = "True"), result,
                                                  SubSeq(output, cli.mark + 1, Len(output)),
                                                  envs, insts))]
    /\ threads' = IdleThreads
    /\ UNCHANGED <<envs, insts, environment, output, prog, result, op, front>>

\* the steps of interpret on the lines of Sources, which hold no block,
\* parallel, repeat or delete statement
Interpret ==
    \/ Evaluate(0)
    \/ EvaluateCall(0)
    \/ Commit(0)
    \/ ExecuteFunction(0)
    \/ ExecuteClass(0)
    \/ FinishBlock(0)
    \/ CallReturn(0)
    \/ Unwind(0)
    \/ FinishInterpret(0)

CliNext == ReadLine \/ EndOfInput \/ RunReturn \/ Interpret

CliSpec == CliInit /\ [][CliNext]_vars

----------------------------------------------------------------------------
(* FrontSpec: Lexer.scan_tokens and Parser.parse applied to sources *)

MaxSource == 3      \* characters of a source made of single characters
MaxOperators == 3   \* binary operators of an expression source
MaxStatements == 3  \* statements of a source made of statements

\* the characters of a word of the sources below
Spell(w) ==
    CASE w = "print" -> <<"p", "r", "i", "n", "t">>
      [] w = "let" -> <<"l", "e", "t">>
      [] w = "square" -> <<"s", "q", "u", "a", "r", "e">>
      [] w = "null" -> <<"n", "u", "l", "l">>
      [] w = "==" -> <<"=", "=">>
      [] w = "\"s\"" -> <<"\"", "s", "\"">>
      [] OTHER -> <<w>>

\* the words, one space between two of them
RECURSIVE JoinWords(_)
JoinWords(words) ==
    IF words = <<>> THEN <<>>
    ELSE IF Len(words) = 1 THEN Spell(words[1])
    ELSE Spell(words[1]) \o <<" ">> \o JoinWords(Tail(words))

\* sources of up to MaxSource characters: a letter, digits, the dot of a
\* fraction, the quote of a string, the slash of a comment, the end of a line
\* and a character that starts one-character and two-character tokens
Alphabet == {"a", "1", "²", ".", "\"", "/", "\n", "="}
TextInputs ==
    {[kind |-> "text", source |-> s] : s \in SeqsUpTo(Alphabet, MaxSource)}

\* expression statements: operands a, b, c, ... joined by binary operators,
\* every operand that is not the target of an assignment in one shape
BinaryOperators == {"=", "==", "<", "+", "-", "*"}
Names == <<"a", "b", "c", "d", "e", "f">>
Shapes == {"plain", "negated", "not negated", "negated call"}
IsTarget(ops, i) == i <= Len(ops) /\ ops[i] = "="
OperandWords(ops, shape, i) ==
    IF IsTarget(ops, i) THEN <<Names[i]>>
    ELSE CASE shape = "plain" -> <<Names[i]>>
           [] shape = "negated" -> <<"-", Names[i]>>
           [] shape = "not negated" -> <<"!", "-", Names[i]>>
           [] shape = "negated call" -> <<"-", Names[i], "(", ")">>
RECURSIVE ExpressionWords(_, _, _)
ExpressionWords(ops, shape, i) ==
    IF i > Len(ops) THEN OperandWords(ops, shape, i)
    ELSE OperandWords(ops, shape, i) \o <<ops[i]>> \o ExpressionWords(ops, shape, i + 1)
ExpressionInputs ==
    {[kind |-> "expression", ops |-> ops, shape |-> shape,
      source |-> JoinWords(ExpressionWords(ops, shape, 1) \o <<";">>)] :
        ops \in SeqsUpTo(BinaryOperators, MaxOperators), shape \in Shapes}

\* statements that hold ( e ) where an expression is expected
Positions == {"print", "let", "argument", "statement"}
Inner ==
    { [words |-> <<"i">>, tree |-> Variable("i")],
      [words |-> <<"1">>, tree |-> Literal(IntV(1))],
      [words |-> <<"\"s\"">>, tree |-> Literal(StrV("s"))],
      [words |-> <<"null">>, tree |-> Literal(Null)],
      [words |-> <<"square", "(", "5", ")">>,
       tree |-> Call(Variable("square"), <<Literal(IntV(5))>>)],
      [words |-> <<"i", "+", "1">>,
       tree |-> Binary(Variable("i"), "+", Literal(IntV(1)))],
      [words |-> <<"1", "+", "i">>,
       tree |-> Binary(Literal(IntV(1)), "+", Variable("i"))],
      [words |-> <<"-", "i">>, tree |-> Unary("-", Variable("i"))],
      [words |-> <<"(", "i", ")">>, tree |-> Variable("i")] }
GroupingWords(position, e) ==
    CASE position = "print" -> <<"print", "(">> \o e.words \o <<")", ";">>
      [] position = "let" -> <<"let", "v", "=", "(">> \o e.words \o <<")", ";">>
      [] position = "argument" -> <<"f", "(", "(">> \o e.words \o <<")", ")", ";">>
      [] position = "statement" -> <<"(">> \o e.words \o <<")", ";">>
\* the statement of which ( e ) is a part, e being parsed to e.tree
GroupingTree(position, e) ==
    CASE position = "print" -> PrintStmt(e.tree)
      [] position = "let" -> Let("v", e.tree)
      [] position = "argument" -> Expression(Call(Variable("f"), <<e.tree>>))
      [] position = "statement" -> Expression(e.tree)
GroupingInputs ==
    {[kind |-> "grouping", position |-> position, inner |-> e,
      source |-> JoinWords(GroupingWords(position, e))] :
        position \in Positions, e \in Inner}

\* statements, well-formed and not: print 1; let x = 2; print ; let = 1;
\* print 1 2; x = print 4; let 5
Pieces ==
    { <<"print", "1", ";">>, <<"let", "x", "=", "2", ";">>,
      <<"print", ";">>, <<"let", "=", "1", ";">>, <<"print", "1", "2", ";">>,
      <<"x", "=", "print", "4", ";">>, <<"let", "5">> }
RECURSIVE Flatten(_)
Flatten(pieces) == IF pieces = <<>> THEN <<>> ELSE pieces[1] \o Flatten(Tail(pieces))
StatementInputs ==
    {[kind |-> "statements", pieces |-> pieces,
      source |-> JoinWords(Flatten(pieces))] :
        pieces \in SeqsUpTo(Pieces, MaxStatements)}

Inputs == TextInputs \cup ExpressionInputs \cup GroupingInputs \cup StatementInputs

\* the characters of a lexeme, which is a slice of the source
Characters(lexeme, source) ==
    CHOOSE w \in {<<>>} \cup {SubSeq(source, i, j) : i \in 1..Len(source),
                                                     j \in 1..Len(source)} :
       Slice(w, 0, Len(w)) = lexeme

\* " ".join(token.lexeme for token in tokens)
RECURSIVE JoinLexemes(_, _, _)
JoinLexemes(tokens, source, i) ==
    IF i > Len(tokens) THEN <<>>
    ELSE IF i = Len(tokens) THEN Characters(tokens[i].lexeme, source)
    ELSE Characters(tokens[i].lexeme, source) \o <<" ">>
         \o JoinLexemes(tokens, source, i + 1)

FrontInit ==
    /\ envs = <<NewEnvironment(0)>>
    /\ insts = <<>>
    /\ environment = 1
    /\ threads = IdleThreads
    /\ output = <<>>
    /\ prog = <<>>
    /\ result = "running"
    /\ op = NoOp
    /\ cli = NoCli
    /\ \E input \in Inputs : front = [phase |-> "source", input |-> input]

FrontFrame ==
    UNCHANGED <<envs, insts, environment, threads, output, prog, result, op, cli>>

\* tokens, errors = lexer.scan_tokens(source)
Scan ==
    /\ front.phase = "source"
    /\ front' = [phase |-> "scanned", input |-> front.input,
                 lexed |-> scan_tokens(front.input.source)]
    /\ FrontFrame

\* scan_tokens of the lexemes of the tokens, joined by spaces
Relex ==
    /\ front.phase = "scanned"
    /\ front.lexed.exc = NoExc
    /\ front.lexed.errors = <<>>
    /\ front' = [phase |-> "relexed", input |-> front.input, lexed |-> front.lexed,
                 relexed |-> scan_tokens(JoinLexemes(front.lexed.tokens,
                                                     front.input.source, 1))]
    /\ FrontFrame

\* statements, errors = parser.parse(tokens)
Parse ==
    /\ front.phase = "scanned"
    /\ front.lexed.exc = NoExc
    /\ front' = [phase |-> "parsed", input |-> front.input, lexed |-> front.lexed,
                 parsed |-> parse(front.lexed.tokens)]
    /\ FrontFrame

FrontNext == Scan \/ Relex \/ Parse

FrontSpec == FrontInit /\ [][FrontNext]_vars

----------------------------------------------------------------------------
(* Properties *)

Done == result # "running"
Workers == 1..MaxBranches
Printed(line) == \E j \in 1..Len(output) : output[j] = line

IsSquare == \E a \in Args : prog = SquareProgram(a)
IsReturnEarly == \E a \in Args : prog = ReturnEarlyProgram(a)
IsClosure == \E a \in Args, b \in Args : prog = ClosureProgram(a, b)
IsParallel == Len(prog) >= 3 /\ prog[3].cls = "Parallel"

\* the statement-list frames of every thread
Frames(t) == {Stack(t)[j] : j \in 1..Len(Stack(t))}
AllStmtsFrames == {f \in UNION {Frames(t) : t \in 0..MaxBranches} : f.kind = "stmts"}

\* C1: when a function body executes `return e;` the rest of the body is not
\* executed and the call evaluates to the value of e: no statement loop ever
\* moves past a return statement, square(a) prints a * a, and f(a), whose
\* body has a print after its return, prints a alone.
C1_ReturnExits ==
    /\ \A f \in AllStmtsFrames :
          \A j \in 1..Len(f.stmts) : j < f.pc => f.stmts[j].cls # "Return"
    /\ \A a \in Args :
          /\ (Done /\ prog = SquareProgram(a)) => output = <<IntToStr(a * a)>>
          /\ (Done /\ prog = ReturnEarlyProgram(a)) => output = <<IntToStr(a)>>

\* thread 0 has gone on past the parallel statement of a parallel program
PastParallel ==
    /\ IsParallel
    /\ \/ threads[0].status = "done"
       \/ Stack(0)[1].pc > 3

\* thread 0 is inside execute_parallel
InParallel == \E f \in Frames(0) : f.kind = "parallel"

Reported(i) == Printed("Error in parallel execution: " \o ExcText(threads[i].exc))

\* C2: when control continues past a parallel block, every statement of the
\* block has finished or has ended with a reported diagnostic, and no branch
\* is still running.
C2_ParallelCompletion ==
    /\ ~InParallel => \A i \in Workers : threads[i].status # "running"
    /\ PastParallel =>
          \A i \in 1..Len(prog[3].body) :
             /\ threads[i].status = "done"
             /\ threads[i].stack = <<>>
             /\ threads[i].exc # NoExc => Reported(i)

\* past a parallel block of which one branch failed and another did not
C2_Witness ==
    /\ PastParallel
    /\ \E i \in Workers : threads[i].status = "done" /\ threads[i].exc # NoExc
    /\ \E i \in Workers : threads[i].status = "done" /\ threads[i].exc = NoExc

\* C3: a runtime failure inside a branch of a parallel block is reported as a
\* diagnostic and stays in its branch: thread 0 never carries an exception,
\* the siblings complete, the statement after the block is executed and
\* interpret does not report a failed run.
C3_BranchFailureContained ==
    IsParallel =>
       /\ threads[0].exc = NoExc
       /\ result \in {"running", "True"}
       /\ \A i \in Workers :
             (threads[i].status = "done" /\ threads[i].exc # NoExc /\ ~InParallel)
                => Reported(i)
       /\ Done =>
             /\ output # <<>>
             /\ output[Len(output)] = "end"
             /\ \A i \in 1..Len(prog[3].body) : threads[i].status = "done"

\* interpret has returned True although a branch failed beside a sibling that
\* completed
C3_Witness ==
    /\ IsParallel
    /\ result = "True"
    /\ \E i \in Workers, j \in Workers :
          /\ threads[i].exc # NoExc
          /\ Reported(i)
          /\ threads[j].status = "done"
          /\ threads[j].exc = NoExc

\* the scopes that the blocks and function calls running in thread u have opened
OpenScopes(u) == {f.environment : f \in {g \in Frames(u) : g.kind = "stmts" /\ g.role = "block"}}

\* the next step of thread t resolves a name through self.environment: it
\* evaluates an expression, or defines or assigns a variable
ResolvesName(t) ==
    /\ AtStmt(t)
    /\ HasValue(Stmt(t))
    /\ \/ Top(t).phase = "eval" /\ ValueExpr(Stmt(t)).cls \notin {"None", "Literal"}
       \/ Top(t).phase = "commit" /\ Stmt(t).cls = "Let"
       \/ Top(t).phase = "commit" /\ Stmt(t).cls = "Expression"
                                  /\ Stmt(t).expression.cls = "Assign"

\* C4: no variable read, let or assignment of one branch of a parallel block
\* resolves through a scope opened by a block or function call that is
\* running in a sibling branch.
C4_BranchScopes ==
    \A t \in Workers : ResolvesName(t) =>
       \A u \in Workers \ {t} : environment \notin OpenScopes(u)

\* C5: after define(n, v) on E, get(n) on E returns v; define changes only E's
\* own map, so every enclosing environment that binds n keeps its value and
\* still returns it from get(n); get(n) fails exactly when no environment from
\* E up to the root binds n.
C5_DefineGetShadow ==
    [][/\ op'.kind = "define" =>
            /\ Environment_get(envs', op'.env, op'.name) = Ok(op'.value)
            /\ Len(envs') = Len(envs)
            /\ \A a \in 1..Len(envs) : a # op'.env => envs'[a] = envs[a]
            /\ \A a \in ChainSet(envs, op'.env) \ {op'.env} :
                  op'.name \in DOMAIN envs[a].values =>
                     /\ op'.name \in DOMAIN envs'[a].values
                     /\ envs'[a].values[op'.name] = envs[a].values[op'.name]
                     /\ Environment_get(envs', a, op'.name) = Ok(envs[a].values[op'.name])
       /\ op'.kind = "get" =>
            /\ op'.res.ok <=> Binders(envs, op'.env, op'.name) # {}
            /\ ~op'.res.ok <=> \A a \in ChainSet(envs, op'.env) :
                                    op'.name \notin DOMAIN envs[a].values
            /\ envs' = envs
      ]_vars

\* a define on an environment whose enclosing chain binds the same name to
\* another value (shadowing)
C5_Witness ==
    /\ op.kind = "define"
    /\ \E a \in ChainSet(envs, op.env) \ {op.env} :
          /\ op.name \in DOMAIN envs[a].values
          /\ envs[a].values[op.name] # op.value

\* C6: assign(n, v) on E changes exactly the binding of n in the nearest
\* environment from E to the root that binds n and nothing else; when no
\* environment of the chain binds n it fails and changes nothing.
C6_AssignFrame ==
    [][op'.kind = "assign" =>
          IF Binders(envs, op'.env, op'.name) # {}
          THEN LET t == Nearest(envs, op'.env, op'.name) IN
               /\ op'.ok
               /\ Len(envs') = Len(envs)
               /\ envs'[t].values[op'.name] = op'.value
               /\ DOMAIN envs'[t].values = DOMAIN envs[t].values
               /\ envs'[t].enclosing = envs[t].enclosing
               /\ \A m \in DOMAIN envs[t].values :
                     m # op'.name => envs'[t].values[m] = envs[t].values[m]
               /\ \A a \in 1..Len(envs) : a # t => envs'[a] = envs[a]
          ELSE /\ ~op'.ok
               /\ envs' = envs
      ]_vars

\* an assign from an inner environment that lands in a middle environment
\* while a farther one binds the name too; and a failed assign exists as well
C6_Witness ==
    /\ op.kind = "assign"
    /\ op.ok
    /\ op.name \notin DOMAIN envs[op.env].values
    /\ Cardinality(Binders(envs, op.env, op.name)) >= 2
    /\ \E a \in Binders(envs, op.env, op.name) :
          envs[a].values[op.name] # op.value


\* C7: a function captures its declaring scope by reference: called after
\* `x = x + 1`, the body of f reads the value that assignment left, and the
\* assignment made by the body is read by the code after the call.
C7_ClosureByReference ==
    \A a \in Args, b \in Args :
       prog = ClosureProgram(a, b) =>
          /\ \A f \in Frames(0) :
                (f.kind = "stmts" /\ f.role = "block") =>
                   envs[f.environment].enclosing = 1
          /\ Done => /\ result = "True"
                     /\ output = <<IntToStr(a + 1), IntToStr(a + 1 + b)>>
                     /\ envs[1].values["x"] = IntV(a + 1 + b)

\* the closure program has run to its end
C7_Witness ==
    /\ IsClosure
    /\ Done
    /\ Len(output) = 2
    /\ Len(envs) = 2

\* C8: a property assignment obj.f = v stores v under f in the fields of the
\* instance, so that a later read of obj.f yields v: the Greeter programs
\* print "hi world".
C8_PropertyAssignment ==
    \A f \in {"name", "title"} :
       (Done /\ prog = GreeterProgram(f, "world")) =>
          /\ result = "True"
          /\ output = <<"hi world">>
          /\ f \in DOMAIN insts[1].fields
          /\ insts[1].fields[f] = StrV("world")

\* C9: reading a property that is neither a field of the instance nor a
\* method of its class fails with a runtime failure and leaves the fields of
\* the instance unchanged, for every property name.
C9_UndefinedProperty ==
    \A q \in {"zzz", "name", "age"} :
       (Done /\ prog = PropertyProgram(q)) =>
          /\ result = "False"
          /\ output = <<"Runtime Error: Undefined property '" \o q \o "'.">>
          /\ insts[1].fields = EmptyMap

\* the frames of a constructor call in progress: ToyClass.call, the call of
\* the bound initializer and its execute_block
Constructing(t, j) ==
    /\ j + 2 <= Len(Stack(t))
    /\ Stack(t)[j].kind = "construct"

\* C10: calling a class with as many arguments as init has parameters (none
\* without init) makes a new instance distinct from the existing ones, runs
\* init once with this bound to it and the parameters bound to the arguments
\* in order, and yields the instance whatever init returns; with any other
\* argument count the call fails before an instance is made or init runs.
C10_Constructor ==
    /\ \A t \in 0..MaxBranches : \A j \in 1..Len(Stack(t)) :
          Constructing(t, j) =>
             LET inst == Stack(t)[j].instance
                 scope == Stack(t)[j + 2].environment
             IN /\ inst.id = Len(insts)
                /\ Stack(t)[j + 1].kind = "call"
                /\ Environment_get(envs, scope, "this") = Ok(inst)
                /\ \A a \in Args, b \in Args :
                      prog = ConstructorProgram(a, b) =>
                         envs[scope].values =
                            IF inst.id = 1
                            THEN [n \in {"p", "q"} |-> IF n = "p" THEN IntV(a) ELSE IntV(b)]
                            ELSE [n \in {"p", "q"} |-> IF n = "p" THEN IntV(b) ELSE IntV(a)]
    /\ \A a \in Args, b \in Args :
          (Done /\ prog = ConstructorProgram(a, b)) =>
             /\ result = "False"
             /\ output = <<IntToStr(a), IntToStr(b), IntToStr(b), IntToStr(a),
                           "Runtime Error: Expected 2 arguments but got 1.">>
             /\ Len(insts) = 2
             /\ envs[1].values["g"] = InstRef(1, "A")
             /\ envs[1].values["h"] = InstRef(2, "A")
             /\ "k" \notin DOMAIN envs[1].values
    /\ \A a \in Args :
          (Done /\ prog = NoInitProgram(a)) =>
             /\ result = "False"
             /\ output = <<"Runtime Error: Expected 0 arguments but got 1.">>
             /\ Len(insts) = 2
             /\ envs[1].values["g"] = InstRef(1, "B")
             /\ envs[1].values["h"] = InstRef(2, "B")
             /\ "k" \notin DOMAIN envs[1].values

\* init is running for the second instance of the constructor program
C10_Witness ==
    /\ \E a \in Args, b \in Args : a # b /\ prog = ConstructorProgram(a, b)
    /\ Len(insts) = 2
    /\ \E j \in 1..Len(Stack(0)) : Constructing(0, j)
    /\ Top(0).kind = "stmts"
    /\ Top(0).pc = 3

IsBoundMethod == \E a \in Args, b \in Args : prog = BoundMethodProgram(a, b)

\* the instance whose method the statement at position pc of the block of the
\* bound-method program calls: m() calls g's, h.get() and k() call h's
Receiver(pc) == InstRef(IF pc = 2 THEN 1 ELSE 2, "A")

\* C11: reading a method name off an instance yields a bound method of that
\* instance, and every call of it, direct or through a variable it was stored
\* in, runs the body in a new scope whose parent binds `this` to the instance
\* the method was read from and lies under the scope the class was declared
\* in (here the global one), not under the scope of the call.
C11_BoundMethod ==
    \A a \in Args, b \in Args :
       prog = BoundMethodProgram(a, b) =>
          /\ \A j \in 2..(Len(Stack(0)) - 1) :
                Stack(0)[j].kind = "call" =>
                   LET scope == Stack(0)[j + 1].environment
                       bound == envs[scope].enclosing
                   IN /\ environment = scope
                      /\ scope = Len(envs)
                      /\ envs[scope].values = EmptyMap
                      /\ bound \notin {0, 1, Stack(0)[j - 1].environment}
                      /\ DOMAIN envs[bound].values = {"this"}
                      /\ envs[bound].values["this"] = Receiver(Stack(0)[j - 1].pc)
                      /\ envs[bound].enclosing = 1
          /\ \A n \in {"m", "k"} :
                n \in DOMAIN envs[1].values =>
                   /\ envs[1].values[n].k = "method"
                   /\ envs[1].values[n].instance = (IF n = "m" THEN 1 ELSE 2)
          /\ Done =>
                /\ result = "True"
                /\ output = <<IntToStr(b), IntToStr(b), IntToStr(b),
                              "<method get of <instance of A>>">>

\* the body of get is running for m(), the method read off g and stored,
\* called from the block that shadows n, after k was read off h
C11_Witness ==
    /\ \E a \in Args, b \in Args : a # b /\ prog = BoundMethodProgram(a, b)
    /\ Len(Stack(0)) = 4
    /\ Stack(0)[2].pc = 2
    /\ Stack(0)[3].kind = "call"
    /\ Top(0).pc = 1
    /\ "k" \in DOMAIN envs[1].values

\* C12: delete(x) sets the binding of x in the nearest scope of the chain that
\* holds x to null, whichever scope of the chain that is, and fails only when
\* no scope of the chain binds x; after it a read of x yields null.
C12_DeleteNearest ==
    /\ \A t \in 0..MaxBranches :
          (AtStmt(t) /\ Stmt(t).cls = "Delete" /\ Stmt(t).expression.cls = "Variable") =>
             LET name == Stmt(t).expression.name
                 r == execute_delete(envs, insts, environment, Stmt(t))
             IN IF Binders(envs, environment, name) # {}
                THEN /\ r.ok
                     /\ r.envs = [envs EXCEPT
                                     ![Nearest(envs, environment, name)].values[name] = Null]
                     /\ Environment_get(r.envs, environment, name) = Ok(Null)
                ELSE ~r.ok
    /\ \A a \in Args :
          (Done /\ prog = DeleteOuterProgram(a)) =>
             /\ result = "True"
             /\ output = <<"null", "null">>

\* C16: a call of a lambda evaluates the body with each parameter bound to the
\* argument at its position, in a scope under the one the lambda was created
\* in: square(a) yields a * a, and (x) => x called with a yields a whatever x
\* is at the place of the call.
C16_LambdaScope ==
    \A a \in Args :
       /\ (Done /\ prog = LambdaProgram(a)) =>
             /\ result = "True"
             /\ output = <<IntToStr(a * a)>>
       /\ (Done /\ prog = LambdaShadowProgram(a)) =>
             /\ result = "True"
             /\ output = <<IntToStr(a)>>

IsCallOrder == \E a \in Args : prog = CallOrderProgram(a)

\* C17: a call evaluates its callee once and then its arguments from left to
\* right (x = x + 1 before x = x * 3), and enters the body with those values;
\* when the callee is not callable or the argument count is not its arity the
\* call is a runtime failure and no body is entered.
C17_CallOrder ==
    \A a \in Args :
       /\ prog = CallOrderProgram(a) =>
             /\ \A j \in 1..(Len(Stack(0)) - 1) :
                   Stack(0)[j].kind = "call" =>
                      /\ Len(envs) = 3
                      /\ envs[Stack(0)[j + 1].environment].values =
                            [n \in {"p", "q"} |->
                               IF n = "p" THEN IntV(a + 1) ELSE IntV(3 * (a + 1))]
             /\ Done =>
                   /\ result = "True"
                   /\ output = <<IntToStr(a + 1), IntToStr(3 * (a + 1)),
                                 IntToStr(3 * (a + 1))>>
                   /\ Len(envs) = 3
       /\ prog \in {CallArityProgram(a), CallNumberProgram(a)} =>
             /\ \A j \in 1..Len(Stack(0)) : Stack(0)[j].kind = "stmts"
             /\ Len(envs) = 1
             /\ ~Printed("in")
             /\ Done =>
                   /\ result = "False"
                   /\ output = << "Runtime Error: " \o
                                    (IF prog = CallArityProgram(a)
                                     THEN "Expected 1 arguments but got 2."
                                     ELSE "Can only call functions and classes.") >>

\* the body of m is running with p and q bound
C17_Witness ==
    /\ IsCallOrder
    /\ Len(Stack(0)) = 3
    /\ Stack(0)[2].kind = "call"
    /\ Top(0).pc = 2
    /\ Len(output) = 1

\* the lines "1" .. "n" that n rounds of the body of the repeat program print
RECURSIVE Rounds(_, _)
Rounds(from, n) ==
    IF n <= 0 THEN <<>> ELSE <<IntToStr(from + 1)>> \o Rounds(from + 1, n - 1)

NotANumber == <<"Runtime Error: Repeat count must be a number.">>

\* C18: repeat c times { body } evaluates c once; for a number n the body
\* runs max(0, trunc(n)) times (2.5 twice, -1.5 never); for a value that is
\* not a number (null, a string, a boolean) the statement fails with "Repeat
\* count must be a number" and the body does not run.
C18_RepeatCount ==
    /\ \A a \in 0..MaxArg :
          (Done /\ prog = RepeatProgram(Num(a))) =>
             output = Rounds(0, a) \o <<"end">>
    /\ (Done /\ prog = RepeatProgram(Literal(FloatV(5, 2)))) =>
          output = Rounds(0, 2) \o <<"end">>
    /\ (Done /\ prog = RepeatProgram(Unary("-", Literal(FloatV(3, 2))))) =>
          output = <<"end">>
    /\ (Done /\ prog = RepeatProgram(Assign("n", Binary(Var("n"), "+", Num(2))))) =>
          output = Rounds(2, 2) \o <<"end">>
    /\ \A c \in {Literal(Null), Text("2"),
                 Binary(Num(1), "<", Num(2)), Binary(Num(1), "<", Num(0))} :
          (Done /\ prog = RepeatProgram(c)) =>
             /\ result = "False"
             /\ output = NotANumber

IsDivision(operator, right) == \E l \in Dividends : prog = DivisionProgram(operator, l, right)

\* C19: for operands that coerce to numbers, a / b with b coercing to zero
\* fails with "Division by zero" and a % b with "Modulo by zero": interpret
\* reports the failure and returns False, the statement after it does not
\* run, and no exception of the host leaves interpret; with a divisor that is
\* not zero the run succeeds.
C19_DivisionByZero ==
    /\ result # "exception"
    /\ \A t \in 0..MaxBranches :
          threads[t].exc.type \in {"none", "RuntimeError"}
    /\ \A r \in ZeroOperands :
          /\ (Done /\ IsDivision("/", r)) =>
                /\ result = "False"
                /\ output = <<"go", "Runtime Error: Division by zero.">>
          /\ (Done /\ IsDivision("%", r)) =>
                /\ result = "False"
                /\ output = <<"go", "Runtime Error: Modulo by zero.">>
    /\ \A r \in NonZeroOperands, o \in {"/", "%"} :
          (Done /\ IsDivision(o, r)) =>
             /\ result = "True"
             /\ Len(output) = 3
             /\ output[3] = "after"

\* "4" % "0" has been reported
C19_Witness ==
    /\ prog = DivisionProgram("%", Text("4"), Text("0"))
    /\ Done
    /\ output = <<"go", "Runtime Error: Modulo by zero.">>

\* C20: when an operand of + is a string the result is the concatenation of
\* the texts that print writes for the two operands: "v = " + x is "v = "
\* followed by the line print x writes, and x + " = v" that line followed by
\* " = v", for x null, a boolean, 10 / 5, 2.5, an integer and a string.
C20_ConcatStringify ==
    \A x \in ConcatOperands :
       (Done /\ prog = ConcatProgram(x)) =>
          /\ Len(output) = 3
          /\ output[1] = "v = " \o output[3]
          /\ output[2] = output[3] \o " = v"

\* the lexical or syntactic errors that run prints for a source
Diagnosis ==
    [source \in Sources |->
        IF scan_tokens(source).exc # NoExc THEN <<>>
        ELSE IF scan_tokens(source).errors # <<>> THEN scan_tokens(source).errors
        ELSE parse(scan_tokens(source).tokens).errors]

\* the heaps before the i-th line of the REPL
HeapsBefore(i) ==
    IF i = 1 THEN [envs |-> <<NewEnvironment(0)>>, insts |-> <<>>]
    ELSE [envs |-> cli.history[i - 1].envs, insts |-> cli.history[i - 1].insts]

\* the runs whose evaluation ended in a runtime failure are reported as 70,
\* and the statements before the failing one have acted: of AbortLine, the
\* let and the first print but not the second
C13_Reported ==
    \A i \in 1..Len(cli.history) :
       LET h == cli.history[i] IN
       /\ (h.called /\ h.success = "False") =>
             /\ h.code = 70
             /\ h.out # <<>>
       /\ h.source = AbortLine =>
             /\ h.success = "False"
             /\ h.out = <<"7", "Runtime Error: Assignment error: Undefined variable 'y'.">>
             /\ h.envs[1].values["x"] = IntV(5)
             /\ "y" \notin DOMAIN h.envs[1].values

\* a step of interpret while a RuntimeError is on its way
C13_Unwinding ==
    (cli.phase = "run" /\ threads[0].status = "running"
     /\ threads[0].exc.type = "RuntimeError") =>
       /\ envs' = envs
       /\ insts' = insts
       /\ IF Len(threads[0].stack) = 1
          THEN /\ threads'[0].status = "done"
               /\ output' = Append(output, "Runtime Error: " \o threads[0].exc.msg)
               /\ result' = "False"
          ELSE /\ threads'[0].exc = threads[0].exc
               /\ Len(threads'[0].stack) = Len(threads[0].stack) - 1
               /\ output' = output

\* C13: once a statement of a run has raised a runtime failure, nothing is
\* executed any more in that run: the heaps stay as the statements before it
\* left them, the only line printed is the report "Runtime Error: ..." and
\* interpret returns False, for which run returns 70.
C13_AbortRun == []C13_Reported /\ [][C13_Unwinding]_vars

\* the REPL has run AbortLine
C13_Witness ==
    \E i \in 1..Len(cli.history) :
       /\ cli.history[i].source = AbortLine
       /\ cli.history[i].code = 70
       /\ Len(cli.history[i].out) = 2

\* C14: every run returns: 65 for a source for which the lexer or the
\* parser has an error, and then it prints the errors and nothing else and
\* leaves the heaps as they were; for any other source 70 when interpret
\* returned False and 0 when it returned True.
C14_RunCodes ==
    /\ cli.phase # "crashed"
    /\ \A i \in 1..Len(cli.history) :
          LET h == cli.history[i] IN
          h.called =>
             IF Diagnosis[h.source] # <<>>
             THEN /\ h.code = 65
                  /\ h.envs = HeapsBefore(i).envs
                  /\ h.insts = HeapsBefore(i).insts
                  /\ Len(h.out) = 1 + Len(Diagnosis[h.source])
                  /\ h.out[1] \in {"Lexical errors:", "Syntax errors:"}
                  /\ \A k \in 1..Len(Diagnosis[h.source]) :
                        h.out[k + 1] = "  " \o Diagnosis[h.source][k]
             ELSE /\ h.success \in {"True", "False"}
                  /\ h.code = IF h.success = "False" THEN 70 ELSE 0

\* a name no line has defined
Undefined == [k |-> "undefined"]

\* the value of x after the first i lines: what the last let, or the
\* assignments after it, made of it
RECURSIVE LatestX(_)
LatestX(i) ==
    IF i = 0 THEN Undefined
    ELSE CASE cli.history[i].source = LetLine -> IntV(1)
           [] cli.history[i].source = AbortLine -> IntV(5)
           [] cli.history[i].source = IncrementLine ->
                 IF LatestX(i - 1) = Undefined THEN Undefined
                 ELSE IntV(LatestX(i - 1).n + 1)
           [] OTHER -> LatestX(i - 1)

\* one of the first i lines is the source
Entered(source, i) == \E j \in 1..i : cli.history[j].source = source

\* C15: a line of the REPL sees what the lines before it have defined,
\* whatever else was entered in between: print x prints the latest value of
\* x, f() runs the function f, which prints that value, and print A prints
\* the class A.
C15_Persistence ==
    \A i \in 1..Len(cli.history) :
       LET h == cli.history[i] IN
       /\ (h.source = PrintLine /\ LatestX(i - 1) # Undefined) =>
             h.code = 0 /\ h.out = <<IntToStr(LatestX(i - 1).n)>>
       /\ (h.source = CallLine /\ Entered(FunctionLine, i - 1)
           /\ LatestX(i - 1) # Undefined) =>
             h.code = 0 /\ h.out = <<IntToStr(LatestX(i - 1).n)>>
       /\ (h.source = PrintClassLine /\ Entered(ClassLine, i - 1)) =>
             h.code = 0 /\ h.out = <<"<class A>">>

\* print x has printed the 1 of a let that a failed line came after
C15_Witness ==
    /\ Len(cli.history) = 3
    /\ cli.history[1].source = LetLine
    /\ cli.history[2].code \in {65, 70}
    /\ cli.history[3].source = PrintLine
    /\ cli.history[3].out = <<"1">>

\* C27: once execute_parallel has returned, self.environment is the
\* environment that was current when the block was entered, whatever the
\* interleaving of the branches.  The parallel block of these programs is a
\* statement of the top level, entered with the globals (environment 1)
\* current.
C27_ParallelRestores == PastParallel => environment = 1

IsRace == \E a \in Args : prog = RaceProgram(a)

\* thread 0 has gone on past the parallel statement of the race program
PastRace ==
    /\ IsRace
    /\ \/ threads[0].status = "done"
       \/ Stack(0)[1].pc > 2

\* a statement of the program is a parallel block
HasParallel == \E i \in 1..Len(prog) : prog[i].cls = "Parallel"

\* C28: when interpret has returned from a program without a parallel
\* block, normally or after a runtime failure raised at any depth of blocks
\* and calls, self.environment is the globals again and no execute_block is
\* left open.
C28_ScopesExited ==
    (Done /\ ~HasParallel) =>
       /\ environment = 1
       /\ \A t \in 0..MaxBranches : Stack(t) = <<>>

\* interpret has reported the failure of a print inside a block, inside a
\* method called by a constructor called by a function: four scopes were
\* entered
C28_Witness ==
    /\ prog = NestedProgram(Var("y"))
    /\ result = "False"
    /\ Len(envs) >= 5
    /\ Printed("Runtime Error: Variable lookup error: Undefined variable 'y'.")
    /\ environment = 1

\* C29: after a parallel block whose two statements each execute x = x + 1
\* on the x of the enclosing environment, x is its value before the block
\* plus 2 in every interleaving.
C29_AtomicIncrement ==
    \A a \in Args :
       (prog = RaceProgram(a) /\ PastRace) => envs[1].values["x"] = IntV(a + 2)

\* scan_tokens has been applied to the source
WasScanned == front.phase \in {"scanned", "relexed", "parsed"}

\* C21: for every source, scan_tokens returns a token list that holds
\* exactly one end-of-file token, its last element.
C21_SingleEof ==
    WasScanned =>
       /\ front.lexed.exc = NoExc
       /\ front.lexed.tokens # <<>>
       /\ \A i \in 1..Len(front.lexed.tokens) :
             (front.lexed.tokens[i].type = "EOF") <=> (i = Len(front.lexed.tokens))

\* C22: the lexemes of the tokens of a source that lexes without
\* diagnostics, joined with single spaces, lex without diagnostics to tokens
\* of the same kinds, lexemes and literal values.
C22_RoundTrip ==
    front.phase = "relexed" =>
       /\ front.relexed.exc = NoExc
       /\ front.relexed.errors = <<>>
       /\ Len(front.relexed.tokens) = Len(front.lexed.tokens)
       /\ \A i \in 1..Len(front.lexed.tokens) :
             /\ front.relexed.tokens[i].type = front.lexed.tokens[i].type
             /\ front.relexed.tokens[i].lexeme = front.lexed.tokens[i].lexeme
             /\ front.relexed.tokens[i].literal = front.lexed.tokens[i].literal

\* the source "a" 1.1 without a space, scanned again as "a" 1.1 with one
C22_Witness ==
    /\ front.phase = "relexed"
    /\ front.input.kind = "text"
    /\ Len(front.lexed.tokens) = 3
    /\ front.lexed.tokens[1].type = "STRING"
    /\ front.lexed.tokens[2].type = "NUMBER"
    /\ Len(front.relexed.tokens) = 3

\* C23: ( e ) parses without diagnostic to the tree of e as the operand of
\* print, the initializer of let, a call argument and the start of an
\* expression statement, whatever e begins with.
C23_Grouping ==
    (front.phase = "parsed" /\ front.input.kind = "grouping") =>
       /\ front.parsed.errors = <<>>
       /\ front.parsed.statements =
             <<GroupingTree(front.input.position, front.input.inner)>>

\* the binary levels of the grammar, loosest first: assignment, equality,
\* comparison, term, factor
Level(operator) ==
    CASE operator = "=" -> 0
      [] operator \in {"==", "!="} -> 1
      [] operator \in {">", ">=", "<", "<="} -> 2
      [] operator \in {"+", "-"} -> 3
      [] operator \in {"*", "/", "%"} -> 4

\* the tree of an operand: prefix operators group right-to-left and bind
\* less tightly than a call
OperandTree(ops, shape, i) ==
    IF IsTarget(ops, i) THEN Variable(Names[i])
    ELSE CASE shape = "plain" -> Variable(Names[i])
           [] shape = "negated" -> Unary("-", Variable(Names[i]))
           [] shape = "not negated" -> Unary("!", Unary("-", Variable(Names[i])))
           [] shape = "negated call" -> Unary("-", Call(Variable(Names[i]), <<>>))

\* the tree the grammar gives the operands i..j and the operators between
\* them: it splits at the first = when there is one (assignment is the
\* loosest level and groups right-to-left), else at the last operator of the
\* loosest level present (a binary level groups left-to-right)
RECURSIVE GrammarTree(_, _, _, _)
GrammarTree(ops, shape, i, j) ==
    IF i = j THEN OperandTree(ops, shape, i)
    ELSE LET loosest == CHOOSE l \in 0..4 :
                           /\ \E k \in i..(j - 1) : Level(ops[k]) = l
                           /\ \A k \in i..(j - 1) : Level(ops[k]) >= l
             at == {k \in i..(j - 1) : Level(ops[k]) = loosest}
             first == CHOOSE k \in at : \A m \in at : k <= m
             last == CHOOSE k \in at : \A m \in at : k >= m
         IN IF loosest = 0
            THEN Assign(Names[first], GrammarTree(ops, shape, first + 1, j))
            ELSE Binary(GrammarTree(ops, shape, i, last), ops[last],
                        GrammarTree(ops, shape, last + 1, j))

\* every = has a single variable on its left
WellFormed(ops) ==
    \A k \in 1..Len(ops) : ops[k] = "=" => \A m \in 1..k : ops[m] = "="

\* C24: a well-formed expression over the binary and prefix operators
\* parses, without diagnostic, to the tree that the precedence order
\* assignment < equality < comparison < term < factor < unary < call gives
\* it, binary levels grouped left-to-right, assignment and prefix operators
\* right-to-left.
C24_Precedence ==
    (front.phase = "parsed" /\ front.input.kind = "expression"
     /\ WellFormed(front.input.ops)) =>
       /\ front.parsed.errors = <<>>
       /\ front.parsed.statements =
             <<Expression(GrammarTree(front.input.ops, front.input.shape,
                                      1, Len(front.input.ops) + 1))>>

\* a = b + c * d has been parsed as Assign(a, b + (c * d))
C24_Witness ==
    /\ front.phase = "parsed"
    /\ front.input.kind = "expression"
    /\ front.input.ops = <<"=", "+", "*">>
    /\ front.input.shape = "plain"
    /\ front.parsed.statements =
          <<Expression(Assign("a", Binary(Variable("b"), "+",
                                           Binary(Variable("c"), "*",
                                                  Variable("d")))))>>

\* parse up to the first ParseError that reaches it: the statements parsed
\* before it and the position of the unexpected token
RECURSIVE FirstRaise(_, _, _)
FirstRaised(tokens, statements, d) ==
    IF d.ok THEN FirstRaise(tokens, Append(statements, d.node), d.current)
    ELSE [raised |-> TRUE, statements |-> statements, at |-> d.current]
FirstRaise(tokens, statements, current) ==
    IF Parser_is_at_end(tokens, current) THEN [raised |-> FALSE]
    ELSE FirstRaised(tokens, statements, declaration(tokens, current, <<>>))

\* the keywords that start a statement
Starters == {"CLASS", "FUNCTION", "LET", "FOR", "IF", "WHILE", "PRINT", "RETURN"}

\* where the parser resumes after the unexpected token, the one after the
\* first p tokens: behind the next ; (the unexpected token itself when it is
\* one), or before the next keyword that starts a statement, or at the end
ResumePoint(tokens, p) ==
    IF tokens[p + 1].type = "EOF" THEN p
    ELSE CHOOSE q \in (p + 1)..(Len(tokens) - 1) :
            LET Stop(r) == \/ tokens[r].type = "SEMICOLON"
                           \/ tokens[r + 1].type \in Starters \cup {"EOF"}
            IN Stop(q) /\ \A r \in (p + 1)..(q - 1) : ~Stop(r)

\* the tokens from the resume point on
Resumed(tokens, p) == SubSeq(tokens, ResumePoint(tokens, p) + 1, Len(tokens))

\* the last n elements of a sequence
Last(s, n) == SubSeq(s, Len(s) - n + 1, Len(s))

\* what parse returns when the first ParseError was raised as raise says: the
\* statements before it and then those of the tokens from the resume point
\* on, and a diagnostic of its own before those of these tokens
Recovers(parsed, raise, rest) ==
    raise.raised =>
       /\ parsed.statements = raise.statements \o rest.statements
       /\ Len(parsed.errors) > Len(rest.errors)
       /\ Last(parsed.errors, Len(rest.errors)) = rest.errors

\* C25: after an unexpected token parse discards the tokens up to and
\* including the next ;, or up to the next keyword that starts a statement,
\* and resumes there: it returns what it had parsed before, followed by what
\* it parses from the resume point on, and the diagnostics of what follows
\* the resume point come after the one of the unexpected token.
C25_Recovery ==
    front.phase = "parsed" =>
       LET raise == FirstRaise(front.lexed.tokens, <<>>, 0) IN
       Recovers(front.parsed, raise,
                IF raise.raised THEN parse(Resumed(front.lexed.tokens, raise.at))
                ELSE front.parsed)

\* print ; print 1 ; let = 1 ; has been parsed: the statement between the
\* two erroneous ones is in the tree and each of the two has its diagnostic
C25_Witness ==
    /\ front.phase = "parsed"
    /\ front.input.kind = "statements"
    /\ front.input.pieces = << <<"print", ";">>, <<"print", "1", ";">>,
                               <<"let", "=", "1", ";">> >>
    /\ front.parsed.statements = <<PrintStmt(Literal(IntV(1)))>>
    /\ \E i, j \in 1..Len(front.parsed.errors) :
          /\ i < j
          /\ front.parsed.errors[i] = "Error at ';': Expect expression."
          /\ front.parsed.errors[j] = "Error at '=': Expect variable name."

\* the statements of the sources that are well-formed
GoodPieces == {<<"print", "1", ";">>, <<"let", "x", "=", "2", ";">>}

\* the statements of a source that hold an unexpected token; each holds one
Erroneous(pieces) == {i \in 1..Len(pieces) : pieces[i] \notin GoodPieces}

\* the first ParseError has added one entry to the diagnostics of what
\* follows the resume point
OneEntry(parsed, raise, rest) ==
    raise.raised => Len(parsed.errors) = 1 + Len(rest.errors)

\* C30: each syntax error contributes exactly one entry to the diagnostics
\* of parse: the first unexpected token of a source adds one entry to those
\* of the tokens that follow the resume point, and a source of statements of
\* which one holds an unexpected token yields a list of length one.
C30_OneDiagnostic ==
    (front.phase = "parsed" /\ front.input.kind = "statements") =>
       LET raise == FirstRaise(front.lexed.tokens, <<>>, 0) IN
       /\ OneEntry(front.parsed, raise,
                   IF raise.raised THEN parse(Resumed(front.lexed.tokens, raise.at))
                   ELSE front.parsed)
       /\ Cardinality(Erroneous(front.input.pieces)) = 1 =>
             Len(front.parsed.errors) = 1

\* name is bound in environment e of E or in one that encloses it
RECURSIVE BoundOnChain(_, _, _)
BoundOnChain(E, e, name) ==
    \/ name \in DOMAIN E[e].values
    \/ E[e].enclosing # 0 /\ BoundOnChain(E, E[e].enclosing, name)

\* C26: on an EnhancedEnvironment, delete(n) of a variable that define(n, v)
\* bound there completes without failure and removes the binding; get(n) of
\* a name bound nowhere on the chain fails with a runtime error; delete(n) of
\* a name bound nowhere on the chain fails.
C26_DeleteDefined ==
    /\ (op.kind = "delete" /\ op.name \in DOMAIN op.before[op.env].values)
           => (op.ok /\ op.name \notin DOMAIN envs[op.env].values)
    /\ (op.kind = "get" /\ ~BoundOnChain(envs, op.env, op.name))
           => (~op.ok /\ op.exc.type = "RuntimeError")
    /\ (op.kind = "delete" /\ ~BoundOnChain(op.before, op.env, op.name))
           => ~op.ok

====
